---- MODULE Spec2Model ----
(***************************************************************************)
(* A model of gpui_router: the navigation History stack (history.rs), the  *)
(* RouterState with its match cache (state.rs), the route matcher          *)
(* (route.rs) and the GlobalRouter facade with its nested resolution cache *)
(* (context.rs, cache.rs).                                                 *)
(*                                                                         *)
(* Strings are sequences of one-character strings, so that splitting a     *)
(* path on '/' is computed and not assumed.  Option<T> is <<>> (None) or   *)
(* <<x>> (Some(x)).  Indices such as `current` are 0-based as in the code; *)
(* a Vec v is a sequence and v[i] of the code is v[i + 1] here.            *)
(***************************************************************************)
EXTENDS Integers, Sequences, FiniteSets, TLC

VARIABLES
    hist,          \* History { entries, current, max_size }
    state,         \* RouterState { history, current, routes, cache }
    nested_cache,  \* GlobalRouter.nested_cache : RouteCache
    named_routes,  \* GlobalRouter.named_routes : NamedRouteRegistry
    guard_check,   \* a Guards::check call: the futures it made and awaits
    ret,           \* the value returned by the last call
    last           \* the last call: its name, its argument, what preceded it

vars == <<hist, state, nested_cache, named_routes, guard_check, ret, last>>

---------------------------------------------------------------------------
(* Bounds of the model *)

\* longest history an unbounded push may build, and longest restored list
MaxLen == 3
\* History.max_size ranges over 0 (unlimited) .. MaxMaxSize
MaxMaxSize == 2

---------------------------------------------------------------------------
(* Values *)

None == <<>>
Some(x) == <<x>>

\* the paths navigation is requested with: "/", "/a", "/b"
PathRoot == <<"/">>
PathA == <<"/", "a">>
PathB == <<"/", "b">>
Paths == {PathRoot, PathA, PathB}
\* the paths the calls that carry a HistoryState are made with
StatePaths == {PathB}

\* HistoryState: a key/value map; one non-empty map is enough to tell an
\* entry with state from an entry without
ScrollState == [scrollY |-> "100"]
HistoryStates == {ScrollState}

Max(a, b) == IF a >= b THEN a ELSE b

---------------------------------------------------------------------------
(* history.rs : HistoryEntry, History *)

HistoryEntry_new(path) == [path |-> path, state |-> None]

HistoryEntry_with_state(path, st) == [path |-> path, state |-> Some(st)]

History_with_max_size(initial_path, max_size) ==
    [entries |-> <<HistoryEntry_new(initial_path)>>, current |-> 0,
     max_size |-> max_size]

\* &self.entries[self.current].path : panics when current is out of range
History_current_path(h) == h.entries[h.current + 1].path

History_current_entry(h) == h.entries[h.current + 1]

History_can_go_back(h) == h.current > 0

History_can_go_forward(h) == h.current < Len(h.entries) - 1

History_len(h) == Len(h.entries)

\* Vec::truncate(n): keeps the first n elements, no effect when n >= len
Truncate(v, n) == IF n >= Len(v) THEN v ELSE SubSeq(v, 1, n)

\* Vec::drain(0..n): removes the first n elements
DrainFront(v, n) == SubSeq(v, n + 1, Len(v))

NavigationEvent(from, to, direction) ==
    [from |-> from, to |-> to, direction |-> direction]

\* mutant: the front is drained but current is not shifted down
History_enforce_size_limit_no_shift(h) ==
    IF h.max_size > 0 /\ Len(h.entries) > h.max_size
    THEN [h EXCEPT !.entries = DrainFront(h.entries, Len(h.entries) - h.max_size)]
    ELSE h

\* mutant: one entry too many is evicted
History_enforce_size_limit_off_by_one(h) ==
    IF h.max_size > 0 /\ Len(h.entries) > h.max_size
    THEN LET excess == Len(h.entries) - h.max_size + 1
         IN [h EXCEPT !.entries = DrainFront(h.entries, excess),
                      !.current = Max(h.current - excess, 0)]
    ELSE h

\* mutant: the newest entries are dropped instead of the oldest
History_enforce_size_limit_drop_newest(h) ==
    IF h.max_size > 0 /\ Len(h.entries) > h.max_size
    THEN LET excess == Len(h.entries) - h.max_size
         IN [h EXCEPT !.entries = Truncate(h.entries, h.max_size),
                      !.current = Max(h.current - excess, 0)]
    ELSE h

History_enforce_size_limit(h) ==
    IF h.max_size > 0 /\ Len(h.entries) > h.max_size
    THEN LET excess == Len(h.entries) - h.max_size
         IN [h EXCEPT !.entries = DrainFront(h.entries, excess),
                      !.current = Max(h.current - excess, 0)]
    ELSE h

\* mutant: the forward entries are not truncated, the new entry is inserted
\* after the current one
History_push_no_truncate(h, path) ==
    LET from == Some(History_current_path(h))
        pushed == [h EXCEPT !.entries =
                                SubSeq(h.entries, 1, h.current + 1)
                                \o <<HistoryEntry_new(path)>>
                                \o SubSeq(h.entries, h.current + 2, Len(h.entries)),
                            !.current = h.current + 1]
    IN [hist |-> History_enforce_size_limit(pushed),
        event |-> Some(NavigationEvent(from, path, "Forward"))]

History_push(h, path) ==
    LET from == Some(History_current_path(h))
        truncated == Truncate(h.entries, h.current + 1)
        pushed == [h EXCEPT !.entries = Append(truncated, HistoryEntry_new(path)),
                            !.current = h.current + 1]
    IN [hist |-> History_enforce_size_limit(pushed),
        event |-> Some(NavigationEvent(from, path, "Forward"))]

History_push_with_state(h, path, st) ==
    LET from == Some(History_current_path(h))
        truncated == Truncate(h.entries, h.current + 1)
        pushed == [h EXCEPT !.entries = Append(truncated,
                                               HistoryEntry_with_state(path, st)),
                            !.current = h.current + 1]
    IN [hist |-> History_enforce_size_limit(pushed),
        event |-> Some(NavigationEvent(from, path, "Forward"))]

\* mutant: replace drops the entries ahead of the current one, as push does
History_replace_truncating(h, path) ==
    LET from == Some(History_current_path(h))
    IN [hist |-> [h EXCEPT !.entries = Append(Truncate(h.entries, h.current),
                                              HistoryEntry_new(path))],
        event |-> Some(NavigationEvent(from, path, "Replace"))]

History_replace(h, path) ==
    LET from == Some(History_current_path(h))
    IN [hist |-> [h EXCEPT !.entries[h.current + 1] = HistoryEntry_new(path)],
        event |-> Some(NavigationEvent(from, path, "Replace"))]

History_replace_with_state(h, path, st) ==
    LET from == Some(History_current_path(h))
    IN [hist |-> [h EXCEPT !.entries[h.current + 1] =
                               HistoryEntry_with_state(path, st)],
        event |-> Some(NavigationEvent(from, path, "Replace"))]

\* mutant: back is guarded by the length of the stack, not by the index
History_back_len_guard(h) ==
    IF Len(h.entries) > 1
    THEN LET from == Some(History_current_path(h))
             moved == [h EXCEPT !.current = Max(h.current - 1, 0)]
         IN [hist |-> moved,
             event |-> Some(NavigationEvent(from, History_current_path(moved), "Back"))]
    ELSE [hist |-> h, event |-> None]

\* a back that reads `from` after it has moved the cursor
History_back_from_after_move(h) ==
    IF History_can_go_back(h)
    THEN LET moved == [h EXCEPT !.current = h.current - 1]
             from == Some(History_current_path(moved))
         IN [hist |-> moved,
             event |-> Some(NavigationEvent(from, History_current_path(moved), "Back"))]
    ELSE [hist |-> h, event |-> None]

History_back(h) ==
    IF History_can_go_back(h)
    THEN LET from == Some(History_current_path(h))
             moved == [h EXCEPT !.current = h.current - 1]
         IN [hist |-> moved,
             event |-> Some(NavigationEvent(from, History_current_path(moved), "Back"))]
    ELSE [hist |-> h, event |-> None]

\* a forward that moves to the newest entry
History_forward_to_newest(h) ==
    IF History_can_go_forward(h)
    THEN LET from == Some(History_current_path(h))
             moved == [h EXCEPT !.current = Len(h.entries) - 1]
         IN [hist |-> moved,
             event |-> Some(NavigationEvent(from, History_current_path(moved),
                                            "Forward"))]
    ELSE [hist |-> h, event |-> None]

History_forward(h) ==
    IF History_can_go_forward(h)
    THEN LET from == Some(History_current_path(h))
             moved == [h EXCEPT !.current = h.current + 1]
         IN [hist |-> moved,
             event |-> Some(NavigationEvent(from, History_current_path(moved),
                                            "Forward"))]
    ELSE [hist |-> h, event |-> None]

History_clear(h, initial_path) ==
    [h EXCEPT !.entries = <<HistoryEntry_new(initial_path)>>, !.current = 0]

\* a restore that installs whatever it is given
History_restore_unchecked(h, es, cur) ==
    [h EXCEPT !.entries = es, !.current = cur]

History_restore(h, es, cur) ==
    IF es # <<>> /\ cur < Len(es)
    THEN [h EXCEPT !.entries = es, !.current = cur]
    ELSE h

---------------------------------------------------------------------------
(* route.rs : Route, match_path *)

\* HashMap::new() and HashMap::insert (a later insert of a key overwrites)
EmptyMap == <<>>
MapInsert(map, k, v) ==
    [x \in (DOMAIN map) \cup {k} |-> IF x = k THEN v ELSE map[x]]

\* s.split('/').filter(|s| !s.is_empty()).collect(): the non-empty runs of
\* characters between slashes, in order
RECURSIVE SplitFrom(_, _, _, _)
SplitFrom(s, i, seg, out) ==
    IF i > Len(s)
    THEN IF seg = <<>> THEN out ELSE Append(out, seg)
    ELSE IF s[i] = "/"
         THEN SplitFrom(s, i + 1, <<>>, IF seg = <<>> THEN out ELSE Append(out, seg))
         ELSE SplitFrom(s, i + 1, Append(seg, s[i]), out)

Split(s) == SplitFrom(s, 1, <<>>, <<>>)

\* s.split(c): the runs between occurrences of c, empty runs included
RECURSIVE SplitOnFrom(_, _, _, _, _)
SplitOnFrom(s, c, i, part, out) ==
    IF i > Len(s)
    THEN Append(out, part)
    ELSE IF s[i] = c
         THEN SplitOnFrom(s, c, i + 1, <<>>, Append(out, part))
         ELSE SplitOnFrom(s, c, i + 1, Append(part, s[i]), out)

SplitOn(s, c) == SplitOnFrom(s, c, 1, <<>>, <<>>)

\* position (0-based) of the first occurrence of character c in s, or None
RECURSIVE Find(_, _, _)
Find(s, c, i) ==
    IF i >= Len(s)
    THEN None
    ELSE IF s[i + 1] = c THEN Some(i) ELSE Find(s, c, i + 1)

\* slice.get(i) with a 0-based i
Get(v, i) == IF i + 1 <= Len(v) THEN Some(v[i + 1]) ELSE None

RouteMatch_new(path) == [path |-> path, params |-> EmptyMap, query |-> EmptyMap]

WildcardSeg == <<"*">>

\* the loop of match_path over the pattern segments, from 0-based index i
RECURSIVE MatchSegments(_, _, _, _)
MatchSegments(pattern_segments, path_segments, i, route_match) ==
    IF i >= Len(pattern_segments)
    THEN Some(route_match)
    ELSE LET pattern_seg == pattern_segments[i + 1]
         IN IF pattern_seg = WildcardSeg
            THEN Some(route_match)
            ELSE IF pattern_seg[1] = ":"
            THEN IF Get(path_segments, i) # None
                 THEN MatchSegments(pattern_segments, path_segments, i + 1,
                          [route_match EXCEPT !.params =
                              MapInsert(@, Tail(pattern_seg), path_segments[i + 1])])
                 ELSE MatchSegments(pattern_segments, path_segments, i + 1,
                                    route_match)
            ELSE IF Get(pattern_segments, i) # Get(path_segments, i)
            THEN None
            ELSE MatchSegments(pattern_segments, path_segments, i + 1, route_match)

match_path(pattern, path) ==
    LET pattern_segments == Split(pattern)
        path_segments == Split(path)
        shape_ok ==
            IF pattern_segments # <<>>
               /\ pattern_segments[Len(pattern_segments)] = WildcardSeg
            THEN ~(Len(path_segments) < Len(pattern_segments) - 1)
            ELSE Len(pattern_segments) = Len(path_segments)
    IN IF shape_ok
       THEN MatchSegments(pattern_segments, path_segments, 0, RouteMatch_new(path))
       ELSE None

---------------------------------------------------------------------------
(* route.rs : validate_route_path, RouteConfig::new and try_new *)

AsciiLetters ==
    {"a", "b", "c", "d", "e", "f", "g", "h", "i", "j", "k", "l", "m", "n", "o",
     "p", "q", "r", "s", "t", "u", "v", "w", "x", "y", "z"}

\* char::is_alphanumeric on the characters of the model
IsAlphanumeric(c) ==
    c \in AsciiLetters \cup {"0", "1", "2", "3", "4", "5", "6", "7", "8", "9"}

Contains(s, sub) ==
    \E i \in 1..(Len(s) - Len(sub) + 1) : SubSeq(s, i, i + Len(sub) - 1) = sub

Ok(value) == [kind |-> "Ok", value |-> value]
Err(error) == [kind |-> "Err", error |-> error]

\* a panic of the calling thread with this message
Panic(message) == [kind |-> "Panic", message |-> message]

Panicked(outcome) == "kind" \in DOMAIN outcome /\ outcome.kind = "Panic"

\* the loop of validate_route_path over path.split('/'), from 0-based index i,
\* with the parameter names seen so far
RECURSIVE ValidateSegments(_, _, _)
ValidateSegments(segments, i, param_names) ==
    IF i >= Len(segments)
    THEN Ok(<<>>)
    ELSE LET segment == segments[i + 1]
             param == Tail(segment)
             pos == Find(param, "{", 0)
             param_name == IF pos # None THEN SubSeq(param, 1, pos[1]) ELSE param
         IN IF segment = <<>> \/ segment[1] # ":"
            THEN ValidateSegments(segments, i + 1, param_names)
            ELSE IF param = <<>>
            THEN Err(<<"Route parameter name cannot be empty">>)
            ELSE IF ~(\A k \in 1..Len(param_name) :
                          IsAlphanumeric(param_name[k]) \/ param_name[k] = "_")
            THEN Err(<<"Route parameter '", param_name,
                       "' must contain only alphanumeric characters and underscores">>)
            ELSE IF param_name \in param_names
            THEN Err(<<"Duplicate route parameter: '", param_name, "'">>)
            ELSE ValidateSegments(segments, i + 1, param_names \cup {param_name})

validate_route_path(path) ==
    IF path = <<>>
    THEN Ok(<<>>)
    ELSE IF Contains(path, <<"/", "/">>)
    THEN Err(<<"Route path cannot contain consecutive slashes">>)
    ELSE ValidateSegments(SplitOn(path, "/"), 0, {})

RouteConfig(path) ==
    [path |-> path, name |-> None, children |-> <<>>, meta |-> EmptyMap]

RouteConfig_new(path) ==
    IF validate_route_path(path).kind = "Err"
    THEN Panic(<<"Invalid route path '", path, "': ",
                 validate_route_path(path).error>>)
    ELSE RouteConfig(path)

RouteConfig_try_new(path) ==
    IF validate_route_path(path).kind = "Err"
    THEN Err(validate_route_path(path).error)
    ELSE Ok(RouteConfig(path))

\* a Route: its path pattern, its optional name, its guards and its optional
\* lifecycle hooks; Route::new panics where RouteConfig::new does
Route_new(path) ==
    IF Panicked(RouteConfig_new(path))
    THEN RouteConfig_new(path)
    ELSE [path |-> RouteConfig_new(path).path, name |-> None, guards |-> <<>>,
          lifecycle |-> None, children |-> <<>>, named_children |-> EmptyMap]

\* Route::children and Route::named_outlet: the builders that nest routes
Route_children(route, children) == [route EXCEPT !.children = children]

Route_named_outlet(route, name, children) ==
    [route EXCEPT !.named_children = MapInsert(@, name, children)]

Route_get_children(route) == route.children

\* a lookup that answers with the default children for an undeclared outlet
Route_get_named_children_or_default(route, name) ==
    IF name \in DOMAIN route.named_children
    THEN Some(route.named_children[name])
    ELSE Some(route.children)

Route_get_named_children(route, name) ==
    IF name \in DOMAIN route.named_children
    THEN Some(route.named_children[name])
    ELSE None

\* Route::lifecycle: the builder that attaches the hooks
Route_lifecycle(route, lifecycle) ==
    [route EXCEPT !.lifecycle = Some(lifecycle)]

Route_matches(route, path) == match_path(route.path, path)

---------------------------------------------------------------------------
(* state.rs : RouterState *)

RouterState_new ==
    [history |-> <<PathRoot>>, current |-> 0, routes |-> <<>>, cache |-> EmptyMap]

RouterState_add_route(s, route) ==
    [s EXCEPT !.routes = Append(@, route), !.cache = EmptyMap]

RouterState_current_path(s) == s.history[s.current + 1]

\* for route in &self.routes { if let Some(m) = route.matches(path) ... }:
\* the match of the first route, in registration order, that matches
RECURSIVE ScanRoutes(_, _, _)
ScanRoutes(routes, path, i) ==
    IF i >= Len(routes)
    THEN None
    ELSE IF Route_matches(routes[i + 1], path) # None
         THEN Route_matches(routes[i + 1], path)
         ELSE ScanRoutes(routes, path, i + 1)

\* mutant: what is cached is a fresh RouteMatch for the path, without the
\* parameters the route extracted
RouterState_current_match_caches_bare_match(s) ==
    LET path == RouterState_current_path(s)
        found == ScanRoutes(s.routes, path, 0)
    IN IF path \in DOMAIN s.cache
       THEN [state |-> s, ret |-> Some(s.cache[path])]
       ELSE IF found # None
            THEN [state |-> [s EXCEPT !.cache =
                                 MapInsert(@, path, RouteMatch_new(path))],
                  ret |-> found]
            ELSE [state |-> s, ret |-> None]

RouterState_current_match(s) ==
    LET path == RouterState_current_path(s)
        found == ScanRoutes(s.routes, path, 0)
    IN IF path \in DOMAIN s.cache
       THEN [state |-> s, ret |-> Some(s.cache[path])]
       ELSE IF found # None
            THEN [state |-> [s EXCEPT !.cache = MapInsert(@, path, found[1])],
                  ret |-> found]
            ELSE [state |-> s, ret |-> None]

RouterState_current_match_immutable(s) ==
    LET path == RouterState_current_path(s)
    IN IF path \in DOMAIN s.cache
       THEN Some(s.cache[path])
       ELSE ScanRoutes(s.routes, path, 0)

RouteChangeEvent(from, to, direction) ==
    [from |-> from, to |-> to, direction |-> direction]

\* a push that keeps the forward entries and appends after them
RouterState_push_no_truncate(s, path) ==
    LET from == Some(RouterState_current_path(s))
    IN [state |-> [s EXCEPT !.history = Append(s.history, path),
                            !.current = s.current + 1],
        event |-> Some(RouteChangeEvent(from, path, "Forward"))]

RouterState_push(s, path) ==
    LET from == Some(RouterState_current_path(s))
    IN [state |-> [s EXCEPT !.history = Append(Truncate(s.history, s.current + 1),
                                               path),
                            !.current = s.current + 1],
        event |-> Some(RouteChangeEvent(from, path, "Forward"))]

RouterState_replace(s, path) ==
    LET from == Some(RouterState_current_path(s))
    IN [state |-> [s EXCEPT !.history[s.current + 1] = path],
        event |-> Some(RouteChangeEvent(from, path, "Replace"))]

RouterState_back(s) ==
    IF s.current > 0
    THEN LET from == Some(RouterState_current_path(s))
             moved == [s EXCEPT !.current = s.current - 1]
         IN [state |-> moved,
             event |-> Some(RouteChangeEvent(from, RouterState_current_path(moved),
                                             "Back"))]
    ELSE [state |-> s, event |-> None]

RouterState_forward(s) ==
    IF s.current < Len(s.history) - 1
    THEN LET from == Some(RouterState_current_path(s))
             moved == [s EXCEPT !.current = s.current + 1]
         IN [state |-> moved,
             event |-> Some(RouteChangeEvent(from, RouterState_current_path(moved),
                                             "Forward"))]
    ELSE [state |-> s, event |-> None]

RouterState_can_go_back(s) == s.current > 0

RouterState_can_go_forward(s) == s.current < Len(s.history) - 1

RouterState_clear(s) ==
    [s EXCEPT !.history = <<PathRoot>>, !.current = 0, !.cache = EmptyMap]

---------------------------------------------------------------------------
(* guards.rs : GuardResult, a guard, the order Guards::check runs guards in *)

GuardResult_allow == [kind |-> "Allow"]

GuardResult_deny(reason) == [kind |-> "Deny", reason |-> reason]

GuardResult_redirect(to) == [kind |-> "Redirect", to |-> to, reason |-> None]

\* a guard whose check resolves to `result` for every request
Guard(name, priority, result) ==
    [name |-> name, priority |-> priority, result |-> result]

\* i32::MIN, the one priority whose negation does not fit an i32
I32_MIN == (-2147483647) - 1

\* -g.priority() as a build without overflow checks computes it
Neg32(x) == IF x = I32_MIN THEN I32_MIN ELSE -x

\* the members in the order they were given: no sort at all
SortByPriority_unsorted(guards) == guards

\* an unstable sort: among equal keys the member given last comes first
RECURSIVE SortByPriority_unstable(_)
SortByPriority_unstable(guards) ==
    IF guards = <<>>
    THEN <<>>
    ELSE LET i == CHOOSE i \in 1..Len(guards) :
                      /\ \A j \in 1..Len(guards) :
                             Neg32(guards[i].priority) <= Neg32(guards[j].priority)
                      /\ \A j \in (i + 1)..Len(guards) :
                             Neg32(guards[i].priority) < Neg32(guards[j].priority)
         IN <<guards[i]>> \o
            SortByPriority_unstable(SubSeq(guards, 1, i - 1) \o
                                    SubSeq(guards, i + 1, Len(guards)))

\* sort_by_key(|g| -g.priority()): a stable sort by ascending key
RECURSIVE SortByPriority(_)
SortByPriority(guards) ==
    IF guards = <<>>
    THEN <<>>
    ELSE LET i == CHOOSE i \in 1..Len(guards) :
                      /\ \A j \in 1..Len(guards) :
                             Neg32(guards[i].priority) <= Neg32(guards[j].priority)
                      /\ \A j \in 1..(i - 1) :
                             Neg32(guards[i].priority) < Neg32(guards[j].priority)
         IN <<guards[i]>> \o
            SortByPriority(SubSeq(guards, 1, i - 1) \o
                           SubSeq(guards, i + 1, Len(guards)))

\* for future in futures { match future.await { Allow => continue, other =>
\* return other } } Allow
RECURSIVE FirstNonAllow(_)
FirstNonAllow(guards) ==
    IF guards = <<>>
    THEN GuardResult_allow
    ELSE IF guards[1].result.kind = "Allow"
         THEN FirstNonAllow(Tail(guards))
         ELSE guards[1].result

Guards_check(guards) == FirstNonAllow(SortByPriority(guards))

---------------------------------------------------------------------------
(* lifecycle.rs : LifecycleResult and the three hooks of a RouteLifecycle *)

LifecycleResult_cont == [kind |-> "Continue"]

LifecycleResult_abort(reason) == [kind |-> "Abort", reason |-> reason]

LifecycleResult_redirect(to) == [kind |-> "Redirect", to |-> to]

LifecycleResult_allows_continue(r) == r.kind = "Continue"

\* a RouteLifecycle whose hooks resolve to the given results
RouteLifecycle(on_enter, on_exit, can_deactivate) ==
    [on_enter |-> on_enter, on_exit |-> on_exit,
     can_deactivate |-> can_deactivate]

---------------------------------------------------------------------------
(* cache.rs : RouteCache over two LruCache maps *)

RouteCache_DEFAULT_CAPACITY == 1000

RouteId_from_path(path) == [path |-> path]

\* an LruCache is the sequence of its entries, least recently used first
LruKeys(lru) == {lru[i].key : i \in 1..Len(lru)}

LruIndex(lru, key) == CHOOSE i \in 1..Len(lru) : lru[i].key = key

LruRemove(lru, i) == SubSeq(lru, 1, i - 1) \o SubSeq(lru, i + 1, Len(lru))

\* LruCache::get: a hit makes the entry the most recently used
LruCache_get(lru, key) ==
    IF key \in LruKeys(lru)
    THEN LET i == LruIndex(lru, key)
         IN [lru |-> Append(LruRemove(lru, i), lru[i]), value |-> Some(lru[i].value)]
    ELSE [lru |-> lru, value |-> None]

\* LruCache::push: updates and promotes an existing key; otherwise inserts,
\* evicting the least recently used entry of a full cache
LruCache_push(lru, cap, key, value) ==
    LET entry == [key |-> key, value |-> value]
    IN IF key \in LruKeys(lru)
       THEN Append(LruRemove(lru, LruIndex(lru, key)), entry)
       ELSE IF Len(lru) >= cap
            THEN Append(Tail(lru), entry)
            ELSE Append(lru, entry)

CacheStats_default ==
    [parent_hits |-> 0, parent_misses |-> 0, child_hits |-> 0, child_misses |-> 0,
     invalidations |-> 0]

RouteCache_with_capacity(capacity) ==
    [parent_cache |-> <<>>, child_cache |-> <<>>, cap |-> capacity,
     stats |-> CacheStats_default]

RouteCache_new == RouteCache_with_capacity(RouteCache_DEFAULT_CAPACITY)

\* a clear that also starts the statistics afresh
RouteCache_clear_resets_stats(c) ==
    [c EXCEPT !.parent_cache = <<>>, !.child_cache = <<>>,
              !.stats = [CacheStats_default EXCEPT
                            !.invalidations = c.stats.invalidations + 1]]

RouteCache_clear(c) ==
    [c EXCEPT !.parent_cache = <<>>, !.child_cache = <<>>,
              !.stats.invalidations = @ + 1]

\* a get_parent that reads the entry without making it the most recently used
RouteCache_get_parent_peek(c, path) ==
    LET got == LruCache_get(c.parent_cache, path)
    IN IF got.value # None
       THEN [cache |-> [c EXCEPT !.stats.parent_hits = @ + 1],
             ret |-> Some(got.value[1].parent_route_id)]
       ELSE [cache |-> [c EXCEPT !.stats.parent_misses = @ + 1], ret |-> None]

RouteCache_get_parent(c, path) ==
    LET got == LruCache_get(c.parent_cache, path)
    IN IF got.value # None
       THEN [cache |-> [c EXCEPT !.parent_cache = got.lru,
                                 !.stats.parent_hits = @ + 1],
             ret |-> Some(got.value[1].parent_route_id)]
       ELSE [cache |-> [c EXCEPT !.stats.parent_misses = @ + 1], ret |-> None]

RouteCache_set_parent(c, path, parent_route_id) ==
    [c EXCEPT !.parent_cache =
                  LruCache_push(@, c.cap, path, [parent_route_id |-> parent_route_id])]

RouteCache_parent_cache_size(c) == Len(c.parent_cache)

RouteCache_child_cache_size(c) == Len(c.child_cache)

RouteCache_total_size(c) ==
    RouteCache_parent_cache_size(c) + RouteCache_child_cache_size(c)

---------------------------------------------------------------------------
(* context.rs : GlobalRouter, as the record of its fields *)

NamedRouteRegistry_new == EmptyMap

NamedRouteRegistry_register(registry, name, path) == MapInsert(registry, name, path)

GlobalRouter_new ==
    [state |-> RouterState_new, nested_cache |-> RouteCache_new,
     named_routes |-> NamedRouteRegistry_new]

GlobalRouter_add_route(g, route) ==
    [g EXCEPT !.named_routes =
                  IF route.name # None
                  THEN NamedRouteRegistry_register(@, route.name[1], route.path)
                  ELSE @,
              !.state = RouterState_add_route(@, route),
              !.nested_cache = RouteCache_clear(@)]

GlobalRouter_push(g, path) ==
    [router |-> [g EXCEPT !.nested_cache = RouteCache_clear(@),
                          !.state = RouterState_push(@, path).state],
     event |-> RouterState_push(g.state, path).event]

GlobalRouter_replace(g, path) ==
    [router |-> [g EXCEPT !.nested_cache = RouteCache_clear(@),
                          !.state = RouterState_replace(@, path).state],
     event |-> RouterState_replace(g.state, path).event]

\* mutant: back moves the cursor without clearing the nested cache
GlobalRouter_back_no_clear(g) ==
    [router |-> [g EXCEPT !.state = RouterState_back(@).state],
     event |-> RouterState_back(g.state).event]

GlobalRouter_back(g) ==
    [router |-> [g EXCEPT !.nested_cache = RouteCache_clear(@),
                          !.state = RouterState_back(@).state],
     event |-> RouterState_back(g.state).event]

GlobalRouter_forward(g) ==
    [router |-> [g EXCEPT !.nested_cache = RouteCache_clear(@),
                          !.state = RouterState_forward(@).state],
     event |-> RouterState_forward(g.state).event]

GlobalRouter_current_path(g) == RouterState_current_path(g.state)

---------------------------------------------------------------------------
(* The calls on a History, one action per method *)

\* the record of a call: its name, the call before it, and the shape of the
\* stack it was made on
Call(op, len, cur) ==
    [op |-> op, prev |-> last.op, pre_len |-> len, pre_current |-> cur]

HCall(op) == Call(op, Len(hist.entries), hist.current)

RouterVars == <<state, nested_cache, named_routes>>

\* the entry lists restore is called with: the prefixes, the empty one
\* included, of a list of pairwise distinct entries
RestoreEntry(i) ==
    IF i % 3 = 1 THEN HistoryEntry_new(PathA)
    ELSE IF i % 3 = 2 THEN HistoryEntry_with_state(PathB, ScrollState)
    ELSE HistoryEntry_new(PathRoot)
RestoreLists == {[i \in 1..n |-> RestoreEntry(i)] : n \in 0..MaxLen}

HPush(path) ==
    /\ hist.max_size = 0 => hist.current + 2 <= MaxLen
    /\ hist' = History_push(hist, path).hist
    /\ ret' = History_push(hist, path).event
    /\ last' = HCall("push")
    /\ UNCHANGED <<RouterVars, guard_check>>

HPushWithState(path, st) ==
    /\ hist.max_size = 0 => hist.current + 2 <= MaxLen
    /\ hist' = History_push_with_state(hist, path, st).hist
    /\ ret' = History_push_with_state(hist, path, st).event
    /\ last' = HCall("push_with_state")
    /\ UNCHANGED <<RouterVars, guard_check>>

HReplace(path) ==
    /\ hist' = History_replace(hist, path).hist
    /\ ret' = History_replace(hist, path).event
    /\ last' = HCall("replace")
    /\ UNCHANGED <<RouterVars, guard_check>>

HReplaceWithState(path, st) ==
    /\ hist' = History_replace_with_state(hist, path, st).hist
    /\ ret' = History_replace_with_state(hist, path, st).event
    /\ last' = HCall("replace_with_state")
    /\ UNCHANGED <<RouterVars, guard_check>>

HBack ==
    /\ hist' = History_back(hist).hist
    /\ ret' = History_back(hist).event
    /\ last' = HCall("back")
    /\ UNCHANGED <<RouterVars, guard_check>>

HForward ==
    /\ hist' = History_forward(hist).hist
    /\ ret' = History_forward(hist).event
    /\ last' = HCall("forward")
    /\ UNCHANGED <<RouterVars, guard_check>>

HClear(initial_path) ==
    /\ hist' = History_clear(hist, initial_path)
    /\ ret' = None
    /\ last' = HCall("clear")
    /\ UNCHANGED <<RouterVars, guard_check>>

HRestore(es, cur) ==
    /\ hist' = History_restore(hist, es, cur)
    /\ ret' = None
    /\ last' = HCall("restore")
    /\ UNCHANGED <<RouterVars, guard_check>>

NoCall == [op |-> "new", prev |-> "new", pre_len |-> 0, pre_current |-> 0]

RouterIdle ==
    /\ state = GlobalRouter_new.state
    /\ nested_cache = GlobalRouter_new.nested_cache
    /\ named_routes = GlobalRouter_new.named_routes

\* no Guards::check call has been made
GuardCheckIdle == guard_check = None

Init ==
    /\ \E initial_path \in Paths, max_size \in 0..MaxMaxSize :
           hist = History_with_max_size(initial_path, max_size)
    /\ ret = None
    /\ last = NoCall
    /\ RouterIdle
    /\ GuardCheckIdle

Next ==
    \/ \E path \in Paths : HPush(path)
    \/ \E path \in StatePaths, st \in HistoryStates : HPushWithState(path, st)
    \/ \E path \in Paths : HReplace(path)
    \/ \E path \in StatePaths, st \in HistoryStates : HReplaceWithState(path, st)
    \/ HBack
    \/ HForward
    \/ \E path \in Paths : HClear(path)
    \/ \E es \in RestoreLists, cur \in 0..MaxLen : HRestore(es, cur)

Spec == Init /\ [][Next]_vars

---------------------------------------------------------------------------
(* Properties of the History stack, checked under Spec *)

PushOps == {"push", "push_with_state"}

\* C1: after any sequence of calls on a History, for every max_size, entries
\* is non-empty and 0 <= current < len(entries), so entries[current] exists.
C1_CurrentInRange ==
    /\ Len(hist.entries) >= 1
    /\ 0 <= hist.current
    /\ hist.current < Len(hist.entries)

\* a push on a History of max_size 1 that was holding several entries (it was
\* restored from a longer list) and whose cursor was not at the front
C1_Witness ==
    /\ last.op \in PushOps
    /\ hist.max_size = 1
    /\ last.pre_len > 1
    /\ last.pre_current >= 1

\* C2: a push made at index i keeps of the old entries only a run that ends at
\* index i, appends the new entry and makes it current: no entry that was
\* after i survives, and can_go_forward() is false right after the push.
C2_PushStep ==
    last'.op \in PushOps =>
        LET n == Len(hist'.entries)
        IN /\ ~History_can_go_forward(hist')
           /\ hist'.current = n - 1
           /\ \E k \in 0..(hist.current + 1) :
                  SubSeq(hist'.entries, 1, n - 1) =
                      SubSeq(hist.entries, k + 1, hist.current + 1)

C2_PushDiscardsForward == [][C2_PushStep]_vars

\* a push made right after a back, from a state that had entries ahead of
\* the cursor: push(a); push(b); back(); push(c)
C2_Witness ==
    /\ last.op = "push"
    /\ last.prev = "back"
    /\ last.pre_len > last.pre_current + 1
    /\ ~History_can_go_forward(hist)

\* push(p) immediately followed by back(): back returns an event and the
\* current path is again the one that was current before the push
PushThenBackRestores(h) ==
    \A p \in Paths :
        LET pushed == History_push(h, p).hist
            r == History_back(pushed)
        IN /\ r.event # None
           /\ r.hist.current < Len(r.hist.entries)
           /\ History_current_path(r.hist) = History_current_path(h)

\* C3 as stated: for every max_size, push(p) followed immediately by back()
\* succeeds and restores the path that was current before the push.
C3_PushBackAnyMaxSize == PushThenBackRestores(hist)

\* C3 as amended: the same for every max_size other than 1 (unlimited, or a
\* limit of at least 2 entries).
C3_PushBackRestores == hist.max_size # 1 => PushThenBackRestores(hist)

\* a back that returned an event, made right after a push on a History
\* limited to two entries
C3_Witness ==
    /\ last.op = "back"
    /\ last.prev = "push"
    /\ ret # None
    /\ hist.max_size = 2
    /\ last.pre_len = 2
    /\ last.pre_current = 1

\* C4: replace(x) overwrites only entries[current]: the length, the current
\* index, every other entry, can_go_back() and can_go_forward() are unchanged,
\* and current_path() = x afterwards.
C4_ReplaceFrame ==
    \A x \in Paths :
        LET r == History_replace(hist, x).hist
        IN /\ Len(r.entries) = Len(hist.entries)
           /\ r.current = hist.current
           /\ r.max_size = hist.max_size
           /\ \A i \in 1..Len(hist.entries) :
                  i # hist.current + 1 => r.entries[i] = hist.entries[i]
           /\ History_can_go_back(r) = History_can_go_back(hist)
           /\ History_can_go_forward(r) = History_can_go_forward(hist)
           /\ History_current_path(r) = x

\* a replace made in the middle of the stack, with entries behind and ahead
C4_Witness ==
    /\ last.op = "replace"
    /\ History_can_go_back(hist)
    /\ History_can_go_forward(hist)
    /\ ret # None
    /\ ret[1].direction = "Replace"

\* C5: back() at index 0 and forward() at the last index return nothing and
\* leave entries and current unchanged.
C5_BoundaryNoOp ==
    /\ hist.current = 0 =>
           /\ History_back(hist).event = None
           /\ History_back(hist).hist = hist
    /\ hist.current = Len(hist.entries) - 1 =>
           /\ History_forward(hist).event = None
           /\ History_forward(hist).hist = hist

\* a back that returned nothing, made at index 0 of a stack of several entries
C5_Witness ==
    /\ last.op = "back"
    /\ ret = None
    /\ last.pre_current = 0
    /\ last.pre_len > 1
    /\ hist.current = 0

\* C6: with max_size M > 0, a push that makes the length exceed M leaves
\* exactly the M newest entries in their order, and the pushed entry is current.
C6_FrontEviction ==
    \A p \in Paths :
        LET grown == Append(Truncate(hist.entries, hist.current + 1),
                            HistoryEntry_new(p))
            r == History_push(hist, p).hist
            M == hist.max_size
        IN (M > 0 /\ Len(grown) > M) =>
               /\ Len(r.entries) = M
               /\ r.entries = SubSeq(grown, Len(grown) - M + 1, Len(grown))
               /\ r.current = M - 1
               /\ History_current_path(r) = p

\* a push that evicted at least two entries at once
C6_Witness ==
    /\ last.op = "push"
    /\ hist.max_size > 0
    /\ (last.pre_current + 2) - hist.max_size >= 2
    /\ Len(hist.entries) = hist.max_size

---------------------------------------------------------------------------
(* The calls on a RouterState used on its own, one action per method *)

\* most routes a table is given
MaxRoutes == 2

PatternA == <<"/", "a">>
PatternParam == <<"/", ":", "x">>
PatternWild == <<"/", "*">>
\* the routes registered on a RouterState: a static, a parameter and a
\* wildcard pattern, which overlap on "/a" and "/b"
StateRoutes == {Route_new(PatternA), Route_new(PatternParam), Route_new(PatternWild)}

\* the record of a call on a RouterState: its name
SCall(op) == [op |-> op]

HistoryIdle == hist = History_with_max_size(PathRoot, 0)

OtherVars == <<hist, nested_cache, named_routes>>

SAddRoute(route) ==
    /\ Len(state.routes) < MaxRoutes
    /\ state' = RouterState_add_route(state, route)
    /\ ret' = None
    /\ last' = SCall("add_route")
    /\ UNCHANGED <<OtherVars, guard_check>>

SPush(path) ==
    /\ state.current + 2 <= MaxLen
    /\ state' = RouterState_push(state, path).state
    /\ ret' = RouterState_push(state, path).event
    /\ last' = SCall("push")
    /\ UNCHANGED <<OtherVars, guard_check>>

SReplace(path) ==
    /\ state' = RouterState_replace(state, path).state
    /\ ret' = RouterState_replace(state, path).event
    /\ last' = SCall("replace")
    /\ UNCHANGED <<OtherVars, guard_check>>

SBack ==
    /\ state' = RouterState_back(state).state
    /\ ret' = RouterState_back(state).event
    /\ last' = SCall("back")
    /\ UNCHANGED <<OtherVars, guard_check>>

SForward ==
    /\ state' = RouterState_forward(state).state
    /\ ret' = RouterState_forward(state).event
    /\ last' = SCall("forward")
    /\ UNCHANGED <<OtherVars, guard_check>>

SClear ==
    /\ state' = RouterState_clear(state)
    /\ ret' = None
    /\ last' = SCall("clear")
    /\ UNCHANGED <<OtherVars, guard_check>>

SCurrentMatch ==
    /\ state' = RouterState_current_match(state).state
    /\ ret' = RouterState_current_match(state).ret
    /\ last' = SCall("current_match")
    /\ UNCHANGED <<OtherVars, guard_check>>

StateInit ==
    /\ state = RouterState_new
    /\ nested_cache = GlobalRouter_new.nested_cache
    /\ named_routes = GlobalRouter_new.named_routes
    /\ HistoryIdle
    /\ GuardCheckIdle
    /\ ret = None
    /\ last = SCall("new")

StateNext ==
    \/ \E route \in StateRoutes : SAddRoute(route)
    \/ \E path \in Paths : SPush(path)
    \/ \E path \in Paths : SReplace(path)
    \/ SBack
    \/ SForward
    \/ SClear
    \/ SCurrentMatch

StateSpec == StateInit /\ [][StateNext]_vars

\* C8: in every state reachable by add_route, push, replace, back, forward,
\* clear and current_match, current_match() (which answers from the cache when
\* it can) returns exactly what a scan of the route table for the current
\* path returns, and so does current_match_immutable().
C8_CacheIsTransparent ==
    LET scanned == ScanRoutes(state.routes, RouterState_current_path(state), 0)
    IN /\ RouterState_current_match(state).ret = scanned
       /\ RouterState_current_match_immutable(state) = scanned

\* a state in which current_match() is answered from the cache, with a match
\* that binds a parameter, after the current path was changed by replace and
\* with two routes registered that both match the path
C8_Witness ==
    /\ last.op = "replace"
    /\ RouterState_current_path(state) \in DOMAIN state.cache
    /\ state.cache[RouterState_current_path(state)].params # EmptyMap
    /\ Len(state.routes) = 2
    /\ \A i \in 1..2 :
           Route_matches(state.routes[i], RouterState_current_path(state)) # None

---------------------------------------------------------------------------
(* The calls on the GlobalRouter facade, one action per method *)

\* most cache invalidations (calls that clear the nested cache) in a run
MaxInvalidations == 3
\* most get_parent lookups in a run
MaxLookups == 2

\* the router as one value, and the step that installs its next value
Router == [state |-> state, nested_cache |-> nested_cache,
           named_routes |-> named_routes]

SetRouter(g) ==
    /\ state' = g.state
    /\ nested_cache' = g.nested_cache
    /\ named_routes' = g.named_routes

\* the record of a call on the facade: its name, its path argument and the
\* number of entries the nested cache held when it was made
GCall(op, path) ==
    [op |-> op, path |-> path, pre_size |-> RouteCache_total_size(nested_cache)]

\* the routes registered on the facade: one without guards, one whose guard
\* denies, one whose guard redirects to "/", one with lifecycle hooks
RouteHome == Route_new(PathRoot)
RouteDenied ==
    [Route_new(PathA) EXCEPT
        !.name = Some("a.page"),
        !.guards = <<Guard("deny", 0, GuardResult_deny("forbidden"))>>]
RouteRedirected ==
    [Route_new(PathB) EXCEPT
        !.guards = <<Guard("auth", 100, GuardResult_redirect(PathRoot))>>]
\* a route whose on_enter aborts and whose can_deactivate aborts
RouteForm ==
    Route_lifecycle(Route_new(PathA),
                    RouteLifecycle(LifecycleResult_abort("not ready"),
                                   LifecycleResult_cont,
                                   LifecycleResult_abort("unsaved changes")))
\* a route whose guard is an FnGuard awaiting a remote answer: its future is
\* not ready when check() returns
RouteRemote ==
    [Route_new(PathB) EXCEPT
        !.guards = <<Guard("remote", 0, GuardResult_allow)>>]
PendingGuards == {"remote"}
FacadeRoutes ==
    {RouteHome, RouteDenied, RouteRedirected, RouteForm, RouteRemote}

\* what the rendering code stores in the nested cache through
\* nested_cache_mut(): the parent "/" for the paths "/a" and "/b"
ParentKeys == {PathA, PathB}
ParentId == RouteId_from_path(PathRoot)

CanInvalidate == nested_cache.stats.invalidations < MaxInvalidations

GAddRoute(route) ==
    /\ CanInvalidate
    /\ Len(state.routes) < MaxRoutes
    /\ SetRouter(GlobalRouter_add_route(Router, route))
    /\ ret' = None
    /\ last' = GCall("add_route", route.path)
    /\ UNCHANGED <<hist, guard_check>>

GPush(path) ==
    /\ CanInvalidate
    /\ SetRouter(GlobalRouter_push(Router, path).router)
    /\ ret' = GlobalRouter_push(Router, path).event
    /\ last' = GCall("push", path)
    /\ UNCHANGED <<hist, guard_check>>

GReplace(path) ==
    /\ CanInvalidate
    /\ SetRouter(GlobalRouter_replace(Router, path).router)
    /\ ret' = GlobalRouter_replace(Router, path).event
    /\ last' = GCall("replace", path)
    /\ UNCHANGED <<hist, guard_check>>

GBack ==
    /\ CanInvalidate
    /\ SetRouter(GlobalRouter_back(Router).router)
    /\ ret' = GlobalRouter_back(Router).event
    /\ last' = GCall("back", None)
    /\ UNCHANGED <<hist, guard_check>>

GForward ==
    /\ CanInvalidate
    /\ SetRouter(GlobalRouter_forward(Router).router)
    /\ ret' = GlobalRouter_forward(Router).event
    /\ last' = GCall("forward", None)
    /\ UNCHANGED <<hist, guard_check>>

GSetParent(path, parent_route_id) ==
    /\ nested_cache' = RouteCache_set_parent(nested_cache, path, parent_route_id)
    /\ ret' = None
    /\ last' = GCall("set_parent", path)
    /\ UNCHANGED <<hist, state, named_routes, guard_check>>

GGetParent(path) ==
    /\ nested_cache.stats.parent_hits + nested_cache.stats.parent_misses < MaxLookups
    /\ nested_cache' = RouteCache_get_parent(nested_cache, path).cache
    /\ ret' = RouteCache_get_parent(nested_cache, path).ret
    /\ last' = GCall("get_parent", path)
    /\ UNCHANGED <<hist, state, named_routes, guard_check>>

RouterInit ==
    /\ RouterIdle
    /\ HistoryIdle
    /\ GuardCheckIdle
    /\ ret = None
    /\ last = [op |-> "new", path |-> None, pre_size |-> 0]

RouterNext ==
    \/ \E route \in FacadeRoutes : GAddRoute(route)
    \/ \E path \in Paths : GPush(path)
    \/ \E path \in Paths : GReplace(path)
    \/ GBack
    \/ GForward
    \/ \E path \in ParentKeys : GSetParent(path, ParentId)
    \/ \E path \in ParentKeys : GGetParent(path)

RouterSpec == RouterInit /\ [][RouterNext]_vars

ClearingOps == {"add_route", "push", "replace", "back", "forward"}

\* C7: every add_route, push, replace, back and forward on the facade leaves
\* the nested cache empty with invalidations one higher, and no step changes
\* the route table or the current path and leaves an entry in the cache.
C7_Step ==
    /\ last'.op \in ClearingOps =>
           /\ RouteCache_total_size(nested_cache') = 0
           /\ nested_cache'.stats.invalidations =
                  nested_cache.stats.invalidations + 1
    /\ (\/ state'.routes # state.routes
        \/ RouterState_current_path(state') # RouterState_current_path(state)) =>
           /\ nested_cache'.parent_cache = <<>>
           /\ nested_cache'.child_cache = <<>>

C7_NavigationClearsCache == [][C7_Step]_vars

\* a back that moved the cursor, made while the nested cache held two entries
C7_Witness ==
    /\ last.op = "back"
    /\ ret # None
    /\ last.pre_size = 2
    /\ RouteCache_total_size(nested_cache) = 0
    /\ nested_cache.stats.invalidations >= 2

\* the route a navigation to `path` targets, and what its guards answer
RECURSIVE TargetRoute(_, _, _)
TargetRoute(routes, path, i) ==
    IF i >= Len(routes)
    THEN None
    ELSE IF Route_matches(routes[i + 1], path) # None
         THEN Some(routes[i + 1])
         ELSE TargetRoute(routes, path, i + 1)

TargetVerdict(routes, path) ==
    IF TargetRoute(routes, path, 0) = None
    THEN GuardResult_allow
    ELSE Guards_check(TargetRoute(routes, path, 0)[1].guards)

\* C9: a push or replace towards a route whose guard returns Deny leaves the
\* history entries, the current index and current_path() as they were.
C9_Step ==
    (/\ last'.op \in {"push", "replace"}
     /\ TargetVerdict(state.routes, last'.path).kind = "Deny") =>
        /\ state'.history = state.history
        /\ state'.current = state.current
        /\ RouterState_current_path(state') = RouterState_current_path(state)

C9_DenyLeavesHistory == [][C9_Step]_vars

\* C10: when the guard of the target route returns Redirect(to), the push
\* appends the redirect target, and only it, in place of the requested path.
C10_Step ==
    (/\ last'.op = "push"
     /\ TargetVerdict(state.routes, last'.path).kind = "Redirect") =>
        /\ state'.history =
               Append(Truncate(state.history, state.current + 1),
                      TargetVerdict(state.routes, last'.path).to)
        /\ state'.current = state.current + 1

C10_RedirectPushesTarget == [][C10_Step]_vars

\* what a lifecycle hook of the first route matching `path` answers
HookVerdict(routes, path, hook) ==
    IF TargetRoute(routes, path, 0) = None
    THEN LifecycleResult_cont
    ELSE IF TargetRoute(routes, path, 0)[1].lifecycle = None
         THEN LifecycleResult_cont
         ELSE IF hook = "on_enter"
              THEN TargetRoute(routes, path, 0)[1].lifecycle[1].on_enter
              ELSE TargetRoute(routes, path, 0)[1].lifecycle[1].can_deactivate

\* C11: a push or replace is not committed when can_deactivate of the route
\* being left, or on_enter of the route being entered, answers Abort or
\* Redirect: the history entries and the current index stay as they were.
C11_Step ==
    (/\ last'.op \in {"push", "replace"}
     /\ \/ ~LifecycleResult_allows_continue(
               HookVerdict(state.routes, RouterState_current_path(state),
                           "can_deactivate"))
        \/ ~LifecycleResult_allows_continue(
               HookVerdict(state.routes, last'.path, "on_enter"))) =>
        /\ state'.history = state.history
        /\ state'.current = state.current

C11_HooksGateHistory == [][C11_Step]_vars

\* the guard check of a navigation to `path` stays pending: the target route
\* has a guard whose future is not ready
GuardPending(routes, path) ==
    /\ TargetRoute(routes, path, 0) # None
    /\ \E i \in 1..Len(TargetRoute(routes, path, 0)[1].guards) :
           TargetRoute(routes, path, 0)[1].guards[i].name \in PendingGuards

\* a navigation to `path` that nothing gates: no guard, no hook
Ungated(routes, path) ==
    /\ TargetVerdict(routes, path).kind = "Allow"
    /\ ~GuardPending(routes, path)
    /\ LifecycleResult_allows_continue(HookVerdict(routes, path, "on_enter"))

\* C14: a push requested while the guard check of the preceding push is still
\* pending supersedes it: the history is what the newer push alone makes of
\* the history the earlier push found, the earlier path is never applied.
C14_Step ==
    (/\ last.op = "push"
     /\ GuardPending(state.routes, last.path)
     /\ last'.op = "push"
     /\ Ungated(state.routes, last'.path)
     /\ LifecycleResult_allows_continue(
            HookVerdict(state.routes, state.history[state.current],
                        "can_deactivate"))) =>
        /\ state'.history =
               Append(Truncate(state.history, state.current), last'.path)
        /\ state'.current = state.current

---------------------------------------------------------------------------
(* A Guards::check call: check() makes the futures, the caller awaits them *)

\* most members of a Guards composite
MaxGuards == 3

\* the members a composite is built from: allowing and blocking guards at
\* priorities 100, 50 and 10, two of them tied at 50, one at i32::MIN
GuardPool ==
    {Guard("auth", 100, GuardResult_allow),
     Guard("auth", 100, GuardResult_redirect(PathRoot)),
     Guard("role", 50, GuardResult_allow),
     Guard("role", 50, GuardResult_deny("role")),
     Guard("owner", 50, GuardResult_redirect(PathA)),
     Guard("perm", 10, GuardResult_allow),
     Guard("perm", 10, GuardResult_deny("perm")),
     Guard("floor", I32_MIN, GuardResult_deny("floor"))}

RECURSIVE SeqsUpTo(_, _)
SeqsUpTo(S, n) ==
    IF n = 0
    THEN {<<>>}
    ELSE SeqsUpTo(S, n - 1) \cup
         {Append(q, x) : q \in {r \in SeqsUpTo(S, n - 1) : Len(r) = n - 1},
                         x \in S}

GuardLists == SeqsUpTo(GuardPool, MaxGuards)

\* guard.check(cx, request) on each member in sorted order: the member is
\* invoked and its future is kept; `awaited` futures have resolved so far
RECURSIVE InvokeAll(_, _)
InvokeAll(sorted_guards, awaited) ==
    IF sorted_guards = <<>>
    THEN <<>>
    ELSE <<[guard |-> sorted_guards[1], resolved_before |-> awaited]>> \o
         InvokeAll(Tail(sorted_guards), awaited)

OtherThanGuards == <<hist, state, nested_cache, named_routes>>

\* <Guards as RouteGuard>::check up to the return of the boxed future; with
\* overflow checks the negation of i32::MIN panics inside the sort
GuardsCheck(guards, overflow_checks) ==
    /\ guard_check = None
    /\ guard_check' =
           IF overflow_checks /\ \E i \in 1..Len(guards) :
                                    guards[i].priority = I32_MIN
           THEN Some([guards |-> guards, futures |-> <<>>, invoked |-> <<>>,
                      awaited |-> 0, done |-> TRUE, panicked |-> TRUE])
           ELSE Some([guards |-> guards,
                      futures |-> SortByPriority(guards),
                      invoked |-> InvokeAll(SortByPriority(guards), 0),
                      awaited |-> 0, done |-> FALSE, panicked |-> FALSE])
    /\ ret' = None
    /\ last' = [op |-> "check"]
    /\ UNCHANGED OtherThanGuards

\* one `future.await` of the async block, and its return when it is reached
GuardsAwait ==
    /\ guard_check # None
    /\ ~guard_check[1].done
    /\ LET c == guard_check[1]
       IN IF c.awaited = Len(c.futures)
          THEN /\ guard_check' = Some([c EXCEPT !.done = TRUE])
               /\ ret' = Some(GuardResult_allow)
          ELSE IF c.futures[c.awaited + 1].result.kind # "Allow"
          THEN /\ guard_check' =
                      Some([c EXCEPT !.awaited = c.awaited + 1, !.done = TRUE])
               /\ ret' = Some(c.futures[c.awaited + 1].result)
          ELSE IF c.awaited + 1 = Len(c.futures)
          THEN /\ guard_check' =
                      Some([c EXCEPT !.awaited = c.awaited + 1, !.done = TRUE])
               /\ ret' = Some(GuardResult_allow)
          ELSE /\ guard_check' = Some([c EXCEPT !.awaited = c.awaited + 1])
               /\ ret' = None
    /\ last' = [op |-> "await"]
    /\ UNCHANGED OtherThanGuards

GuardsInit ==
    /\ GuardCheckIdle
    /\ RouterIdle
    /\ HistoryIdle
    /\ ret = None
    /\ last = [op |-> "new"]

GuardsNext ==
    \/ \E guards \in GuardLists, overflow_checks \in BOOLEAN :
           GuardsCheck(guards, overflow_checks)
    \/ GuardsAwait

GuardsSpec == GuardsInit /\ [][GuardsNext]_vars

\* the members whose result is not Allow
Blocking(guards) == {i \in 1..Len(guards) : guards[i].result.kind # "Allow"}

\* C12: a finished Guards::check returns the result of a blocking member that
\* no other blocking member outranks in priority, and returns Allow exactly
\* when every member allows (an empty composite allows).
C12_FirstBlockingByPriority ==
    (/\ guard_check # None
     /\ guard_check[1].done) =>
        LET guards == guard_check[1].guards
        IN /\ ~guard_check[1].panicked
           /\ ret # None
           /\ (ret[1].kind = "Allow") <=> (Blocking(guards) = {})
           /\ Blocking(guards) # {} =>
                  \E i \in Blocking(guards) :
                      /\ ret[1] = guards[i].result
                      /\ \A j \in Blocking(guards) :
                             guards[j].priority <= guards[i].priority

\* what does hold of the code: the same for composites whose members all
\* have a priority above i32::MIN
C12_FirstBlockingAboveMin ==
    (/\ guard_check # None
     /\ guard_check[1].done
     /\ \A i \in 1..Len(guard_check[1].guards) :
            guard_check[1].guards[i].priority # I32_MIN) =>
        LET guards == guard_check[1].guards
        IN /\ ret # None
           /\ (ret[1].kind = "Allow") <=> (Blocking(guards) = {})
           /\ Blocking(guards) # {} =>
                  \E i \in Blocking(guards) :
                      /\ ret[1] = guards[i].result
                      /\ \A j \in Blocking(guards) :
                             guards[j].priority <= guards[i].priority

\* C13: the members are invoked one after another: the k-th member invoked
\* is invoked when the k-1 before it have resolved, and only when every one
\* of them allowed (after a Deny or Redirect no further member is invoked).
C13_SequentialInvocation ==
    (/\ guard_check # None
     /\ ~guard_check[1].panicked) =>
        \A k \in 1..Len(guard_check[1].invoked) :
            /\ guard_check[1].invoked[k].resolved_before = k - 1
            /\ \A j \in 1..(k - 1) :
                   guard_check[1].invoked[j].guard.result.kind = "Allow"

\* the case the claim names: priorities 100, 50, 10 with the 50 member
\* denying; the member of priority 10 is not among the invoked
C13_DeniedStopsInvocation ==
    (/\ guard_check # None
     /\ ~guard_check[1].panicked
     /\ Len(guard_check[1].futures) = 3
     /\ guard_check[1].futures[1] = Guard("auth", 100, GuardResult_allow)
     /\ guard_check[1].futures[2] = Guard("role", 50, GuardResult_deny("role"))
     /\ guard_check[1].futures[3].priority = 10) =>
        \A k \in 1..Len(guard_check[1].invoked) :
            guard_check[1].invoked[k].guard.priority # 10

---------------------------------------------------------------------------
(* matcher.rs : Segment, Constraint and the priority of a RoutePattern *)

Constraint_parse(s) ==
    IF s = <<"\\", "d", "+">>
    THEN [kind |-> "Numeric"]
    ELSE IF s = <<"u", "u", "i", "d">>
         THEN [kind |-> "Uuid"]
         ELSE [kind |-> "Pattern", pattern |-> s]

\* Segment::parse; the slice rest[pos + 1..rest.len() - 1] panics when the
\* '<' is the last character of the segment
Segment_parse(s) ==
    IF s = <<"*">>
    THEN [kind |-> "Wildcard"]
    ELSE IF s # <<>> /\ s[1] = ":"
    THEN LET rest == Tail(s)
             pos == Find(rest, "<", 0)
         IN IF pos # None
            THEN IF pos[1] + 1 > Len(rest) - 1
                 THEN [kind |-> "Panic"]
                 ELSE [kind |-> "Param",
                       name |-> SubSeq(rest, 1, pos[1]),
                       constraint |->
                           Some(Constraint_parse(
                                    SubSeq(rest, pos[1] + 2, Len(rest) - 1)))]
            ELSE [kind |-> "Param", name |-> rest, constraint |-> None]
    ELSE [kind |-> "Static", text |-> s]

\* u8::wrapping_sub
SaturatingSub_wrapping(a, b) == (a - b) % 256

\* u8::saturating_sub
SaturatingSub(a, b) == IF a < b THEN 0 ELSE a - b

RECURSIVE PriorityFrom(_, _, _)
PriorityFrom(segments, i, priority) ==
    IF i >= Len(segments)
    THEN priority
    ELSE IF segments[i + 1].kind = "Param"
         THEN PriorityFrom(segments, i + 1, SaturatingSub(priority, 10))
         ELSE IF segments[i + 1].kind = "Optional"
              THEN PriorityFrom(segments, i + 1, SaturatingSub(priority, 5))
              ELSE IF segments[i + 1].kind = "Wildcard"
                   THEN 0
                   ELSE PriorityFrom(segments, i + 1, priority)

RoutePattern_calculate_priority(segments) == PriorityFrom(segments, 0, 100)

RoutePattern_from_path(path) ==
    LET segments == [i \in 1..Len(Split(path)) |-> Segment_parse(Split(path)[i])]
    IN [segments |-> segments,
        priority |-> RoutePattern_calculate_priority(segments)]

\* RouterState::current_route: the first registered route that matches
RouterState_current_route(s) ==
    TargetRoute(s.routes, RouterState_current_path(s), 0)

\* C15: the route selected for the current path has the highest pattern
\* priority among the registered routes that match it (registration order
\* only breaks ties), and current_match returns the match of that route.
C15_HighestPrioritySelected ==
    LET path == RouterState_current_path(state)
        Matching == {i \in 1..Len(state.routes) :
                        Route_matches(state.routes[i], path) # None}
        Best == {i \in Matching :
                    /\ \A j \in Matching :
                           RoutePattern_from_path(state.routes[j].path).priority
                           <= RoutePattern_from_path(state.routes[i].path).priority
                    /\ \A j \in Matching :
                           j < i =>
                           RoutePattern_from_path(state.routes[j].path).priority
                           < RoutePattern_from_path(state.routes[i].path).priority}
    IN Matching # {} =>
           /\ \A i \in Best :
                  RouterState_current_route(state) = Some(state.routes[i])
           /\ last.op = "current_match" =>
                  \A i \in Best : ret = Route_matches(state.routes[i], path)

---------------------------------------------------------------------------
(* nested.rs : resolve_child_route, over the str operations it uses *)

RECURSIVE TrimStartMatches(_, _)
TrimStartMatches(s, c) ==
    IF s # <<>> /\ s[1] = c THEN TrimStartMatches(Tail(s), c) ELSE s

RECURSIVE TrimEndMatches(_, _)
TrimEndMatches(s, c) ==
    IF s # <<>> /\ s[Len(s)] = c
    THEN TrimEndMatches(SubSeq(s, 1, Len(s) - 1), c)
    ELSE s

StartsWith(s, prefix) ==
    /\ Len(prefix) <= Len(s)
    /\ SubSeq(s, 1, Len(prefix)) = prefix

StripPrefix(s, prefix) ==
    IF StartsWith(s, prefix)
    THEN Some(SubSeq(s, Len(prefix) + 1, Len(s)))
    ELSE None

UnwrapOr(opt, default) == IF opt = None THEN default ELSE opt[1]

RouteParams_new == EmptyMap

\* the first child whose path is empty, "/" or "index"
RECURSIVE find_index_route_from(_, _, _)
find_index_route_from(children, params, i) ==
    IF i >= Len(children)
    THEN None
    ELSE LET child_path == TrimStartMatches(children[i + 1].path, "/")
         IN IF \/ child_path = <<>>
               \/ child_path = <<"/">>
               \/ child_path = <<"i", "n", "d", "e", "x">>
            THEN Some([route |-> children[i + 1], params |-> params])
            ELSE find_index_route_from(children, params, i + 1)

\* an index lookup that settles for the first child when none is an index
find_index_route_or_first(children, params) ==
    IF find_index_route_from(children, params, 0) # None
    THEN find_index_route_from(children, params, 0)
    ELSE Some([route |-> children[1], params |-> params])

find_index_route(children, params) == find_index_route_from(children, params, 0)

\* the first child whatever its path
MatchFirstSegment_first_child(children, first_segment, parent_params, i) ==
    Some([route |-> children[1], params |-> parent_params])

\* the same loop binding the parameter into an empty map
RECURSIVE MatchFirstSegment_fresh_params(_, _, _, _)
MatchFirstSegment_fresh_params(children, first_segment, parent_params, i) ==
    IF i >= Len(children)
    THEN None
    ELSE LET child_path == TrimStartMatches(children[i + 1].path, "/")
         IN IF child_path = first_segment \/ StartsWith(child_path, <<":">>)
            THEN Some([route |-> children[i + 1],
                       params |->
                           IF StartsWith(child_path, <<":">>)
                           THEN MapInsert(RouteParams_new,
                                          TrimStartMatches(child_path, ":"),
                                          first_segment)
                           ELSE parent_params])
            ELSE MatchFirstSegment_fresh_params(children, first_segment,
                                                parent_params, i + 1)

\* the loop over the children: an exact first segment or any ":param" child
RECURSIVE MatchFirstSegment(_, _, _, _)
MatchFirstSegment(children, first_segment, parent_params, i) ==
    IF i >= Len(children)
    THEN None
    ELSE LET child_path == TrimStartMatches(children[i + 1].path, "/")
         IN IF child_path = first_segment \/ StartsWith(child_path, <<":">>)
            THEN Some([route |-> children[i + 1],
                       params |->
                           IF StartsWith(child_path, <<":">>)
                           THEN MapInsert(parent_params,
                                          TrimStartMatches(child_path, ":"),
                                          first_segment)
                           ELSE parent_params])
            ELSE MatchFirstSegment(children, first_segment, parent_params, i + 1)

resolve_child_route(parent_route, current_path, parent_params, outlet_name) ==
    LET named == Route_get_named_children(parent_route, UnwrapOr(outlet_name, <<>>))
        children == IF outlet_name # None
                    THEN UnwrapOr(named, <<>>)
                    ELSE Route_get_children(parent_route)
        parent_path_normalized == TrimEndMatches(parent_route.path, "/")
        current_path_normalized == TrimStartMatches(current_path, "/")
        parent_rel == TrimStartMatches(parent_path_normalized, "/")
        remaining ==
            IF parent_path_normalized = <<>> \/ parent_path_normalized = <<"/">>
            THEN current_path_normalized
            ELSE TrimStartMatches(
                     UnwrapOr(StripPrefix(current_path_normalized, parent_rel),
                              <<>>), "/")
        segments == Split(remaining)
    IN IF outlet_name # None /\ named = None
       THEN None
       ELSE IF children = <<>>
       THEN None
       ELSE IF ~StartsWith(current_path_normalized, parent_rel)
       THEN None
       ELSE IF remaining = <<>> \/ segments = <<>>
       THEN find_index_route(children, parent_params)
       ELSE MatchFirstSegment(children, segments[1], parent_params, 0)

---------------------------------------------------------------------------
(* widgets.rs : the owner of the outlet, and what the outlet renders *)

\* path with its leading and trailing '/' trimmed
TrimSlashes(path) == TrimEndMatches(TrimStartMatches(path, "/"), "/")

\* format!("{}/{}", a, b)
JoinPath(a, b) == a \o <<"/">> \o b

\* the full path of `route` below `accumulated_path`
FullRoutePath(route, accumulated_path) ==
    LET route_segment == TrimSlashes(route.path)
    IN IF accumulated_path = <<>>
       THEN IF route_segment = <<>> \/ route_segment = <<"/">>
            THEN <<>>
            ELSE route_segment
       ELSE IF route_segment = <<>> \/ route_segment = <<"/">>
            THEN accumulated_path
            ELSE JoinPath(accumulated_path, route_segment)

\* is the current path in the subtree of a route with this full path
IsUnder(current_normalized, full_route_path) ==
    IF full_route_path = <<>>
    THEN current_normalized # <<>>
    ELSE /\ StartsWith(current_normalized, full_route_path)
         /\ \/ Len(current_normalized) = Len(full_route_path)
            \/ StartsWith(SubSeq(current_normalized, Len(full_route_path) + 1,
                                 Len(current_normalized)), <<"/">>)

\* the full path of a direct child of a route with this full path
ChildFullPath(child, full_route_path) ==
    IF full_route_path = <<>>
    THEN TrimSlashes(child.path)
    ELSE JoinPath(full_route_path, TrimSlashes(child.path))

\* some direct child matches the current path or contains it
ChildCovers(children, current_normalized, full_route_path) ==
    \E i \in 1..Len(children) :
        \/ current_normalized = ChildFullPath(children[i], full_route_path)
        \/ StartsWith(current_normalized,
                      ChildFullPath(children[i], full_route_path) \o <<"/">>)

\* the same loop without the descent into the children
RECURSIVE find_parent_route_from_shallow(_, _, _, _)
find_parent_route_from_shallow(routes, current_path, accumulated_path, i) ==
    IF i >= Len(routes)
    THEN None
    ELSE LET route == routes[i + 1]
             current_normalized == TrimSlashes(current_path)
             full_route_path == FullRoutePath(route, accumulated_path)
             rest == find_parent_route_from_shallow(routes, current_path,
                                                    accumulated_path, i + 1)
         IN IF Route_get_children(route) = <<>>
            THEN rest
            ELSE IF ~IsUnder(current_normalized, full_route_path)
            THEN rest
            ELSE IF ChildCovers(Route_get_children(route),
                                current_normalized, full_route_path)
            THEN Some(route)
            ELSE IF current_normalized = full_route_path
                    /\ accumulated_path = <<>>
            THEN Some(route)
            ELSE rest

\* find_parent_route_internal, the loop over `routes` from 0-based index i
RECURSIVE find_parent_route_from(_, _, _, _)
find_parent_route_from(routes, current_path, accumulated_path, i) ==
    IF i >= Len(routes)
    THEN None
    ELSE LET route == routes[i + 1]
             current_normalized == TrimSlashes(current_path)
             full_route_path == FullRoutePath(route, accumulated_path)
             rest == find_parent_route_from(routes, current_path,
                                            accumulated_path, i + 1)
         IN IF Route_get_children(route) = <<>>
            THEN rest
            ELSE IF ~IsUnder(current_normalized, full_route_path)
            THEN rest
            ELSE LET deeper == find_parent_route_from(
                                   Route_get_children(route), current_path,
                                   full_route_path, 0)
                 IN IF deeper # None
                    THEN deeper
                    ELSE IF ChildCovers(Route_get_children(route),
                                        current_normalized, full_route_path)
                    THEN Some(route)
                    ELSE IF current_normalized = full_route_path
                            /\ accumulated_path = <<>>
                    THEN Some(route)
                    ELSE rest

find_parent_route_internal(routes, current_path, accumulated_path) ==
    find_parent_route_from(routes, current_path, accumulated_path, 0)

find_parent_route_for_path(routes, current_path) ==
    find_parent_route_internal(routes, current_path, <<>>)

\* render_router_outlet: the child route it renders with its parameters, or
\* the message element it returns when nothing resolves
render_router_outlet(router_state, name) ==
    LET current_path == RouterState_current_path(router_state)
        parent_route == find_parent_route_for_path(router_state.routes,
                                                   current_path)
        resolved == resolve_child_route(parent_route[1], current_path,
                                        RouteParams_new, name)
    IN IF parent_route = None
       THEN [kind |-> "NoParentRoute"]
       ELSE IF Route_get_children(parent_route[1]) = <<>>
       THEN [kind |-> "NoChildRoutes"]
       ELSE IF resolved = None
       THEN [kind |-> "NoChildMatched"]
       ELSE [kind |-> "Rendered", route |-> resolved[1].route,
             params |-> resolved[1].params]

---------------------------------------------------------------------------
(* The outlet of a router with nested routes: navigate, then render *)

\* most segments of a navigated path built from SegmentNames
MaxSegs == 3

SegmentNames == {<<"a">>, <<"b">>, <<"c">>}

RECURSIVE PathsOfLen(_)
PathsOfLen(n) ==
    IF n = 0
    THEN {<<>>}
    ELSE {p \o <<"/">> \o seg : p \in PathsOfLen(n - 1), seg \in SegmentNames}

PathDashboard == <<"/", "d", "a", "s", "h", "b", "o", "a", "r", "d">>
PathDashboardAnalytics == <<"/", "d", "a", "s", "h", "b", "o", "a", "r", "d", "/", "a", "n", "a", "l", "y", "t", "i", "c", "s">>
PathDashboardOverview == <<"/", "d", "a", "s", "h", "b", "o", "a", "r", "d", "/", "o", "v", "e", "r", "v", "i", "e", "w">>
PathDashboardSettings == <<"/", "d", "a", "s", "h", "b", "o", "a", "r", "d", "/", "s", "e", "t", "t", "i", "n", "g", "s">>
PathDashboardSettingsMissing == <<"/", "d", "a", "s", "h", "b", "o", "a", "r", "d", "/", "s", "e", "t", "t", "i", "n", "g", "s", "/", ":", "m", "i", "s", "s", "i", "n", "g">>

\* the paths the outlet is rendered for
NavPaths ==
    {PathRoot} \cup UNION {PathsOfLen(n) : n \in 1..MaxSegs} \cup
    {PathDashboard, PathDashboardAnalytics, PathDashboardOverview,
     PathDashboardSettings, PathDashboardSettingsMissing}

RouteOverview == Route_new(<<"o", "v", "e", "r", "v", "i", "e", "w">>)
RouteAnalytics == Route_new(<<"a", "n", "a", "l", "y", "t", "i", "c", "s">>)
RouteDashboard ==
    Route_children(Route_new(PathDashboard), <<RouteOverview, RouteAnalytics>>)
RouteDashboardSettings == Route_new(PathDashboardSettings)

\* "/" > "a" > "b" > "c", each the only child of the one before
RouteRootDeep ==
    Route_children(Route_new(PathRoot),
        <<Route_children(Route_new(<<"a">>),
              <<Route_children(Route_new(<<"b">>), <<Route_new(<<"c">>)>>)>>)>>)
\* "/a" with the child "b"
RouteA == Route_children(Route_new(PathA), <<Route_new(<<"b">>)>>)
\* "/b" with an index child and a parameter child, and the outlet "side"
RouteB ==
    Route_named_outlet(
        Route_children(Route_new(PathB), <<Route_new(<<>>), Route_new(<<":", "x">>)>>),
        <<"s", "i", "d", "e">>, <<Route_new(<<"c">>)>>)
\* "/c", a route without children
RouteC == Route_new(<<"/", "c">>)

\* the route tables the router is initialised with
Forests ==
    {<<>>,
     <<RouteHome, RouteDashboard, RouteDashboardSettings>>,
     <<RouteRootDeep>>,
     <<RouteA, RouteRootDeep>>,
     <<RouteC, RouteA>>,
     <<RouteB>>}

OutletNames == {None, Some(<<"s", "i", "d", "e">>)}

NestedIdle == <<hist, nested_cache, named_routes, guard_check>>

\* navigation to `path` (GlobalRouter::replace on the router state)
NReplace(path) ==
    /\ state' = RouterState_replace(state, path).state
    /\ ret' = None
    /\ last' = [op |-> "replace", name |-> None]
    /\ UNCHANGED NestedIdle

NRenderOutlet(name) ==
    /\ ret' = render_router_outlet(state, name)
    /\ last' = [op |-> "render_router_outlet", name |-> name]
    /\ UNCHANGED <<state, NestedIdle>>

NFindParent ==
    /\ ret' = find_parent_route_for_path(state.routes,
                                         RouterState_current_path(state))
    /\ last' = [op |-> "find_parent_route_for_path", name |-> None]
    /\ UNCHANGED <<state, NestedIdle>>

NestedInit ==
    /\ \E routes \in Forests :
           state = [RouterState_new EXCEPT !.routes = routes]
    /\ nested_cache = GlobalRouter_new.nested_cache
    /\ named_routes = GlobalRouter_new.named_routes
    /\ HistoryIdle
    /\ GuardCheckIdle
    /\ ret = None
    /\ last = [op |-> "new", name |-> None]

NestedNext ==
    \/ \E path \in NavPaths : NReplace(path)
    \/ \E name \in OutletNames : NRenderOutlet(name)
    \/ NFindParent

NestedSpec == NestedInit /\ [][NestedNext]_vars

\* C16: with "/", "/dashboard" (children overview, analytics) and
\* "/dashboard/settings" registered, the default outlet renders the child
\* analytics with empty parameters for "/dashboard/analytics", and resolves
\* nothing for "/dashboard/settings/:missing".
C16_DashboardOutlet ==
    (/\ last.op = "render_router_outlet"
     /\ last.name = None
     /\ state.routes = <<RouteHome, RouteDashboard, RouteDashboardSettings>>) =>
        /\ RouterState_current_path(state) = PathDashboardAnalytics =>
               ret = [kind |-> "Rendered", route |-> RouteAnalytics,
                      params |-> EmptyMap]
        /\ RouterState_current_path(state) = PathDashboardSettingsMissing =>
               ret.kind # "Rendered"

C16_Witness ==
    /\ last.op = "render_router_outlet"
    /\ last.name = None
    /\ state.routes = <<RouteHome, RouteDashboard, RouteDashboardSettings>>
    /\ RouterState_current_path(state) = PathDashboardAnalytics
    /\ ret.kind = "Rendered"
    /\ ret.route.path = <<"a", "n", "a", "l", "y", "t", "i", "c", "s">>

\* every node of the route tree with its accumulated full path and depth
RECURSIVE NodesOf(_, _, _)
NodesOf(routes, accumulated_path, depth) ==
    UNION {{[route |-> routes[i], depth |-> depth,
             full |-> FullRoutePath(routes[i], accumulated_path)]} \cup
           NodesOf(routes[i].children,
                   FullRoutePath(routes[i], accumulated_path), depth + 1)
           : i \in 1..Len(routes)}

\* p is s, or a prefix of s that ends where a segment of s ends
BoundaryPrefix(p, s) ==
    \/ p = <<>>
    \/ p = s
    \/ StartsWith(s, p \o <<"/">>)

\* the node has a child, and its full path is a boundary prefix of `current`
Qualifies(n, current) ==
    /\ n.route.children # <<>>
    /\ BoundaryPrefix(n.full, current)

\* the node owns the outlet for `current`: it qualifies and one of its direct
\* children is the current path or contains it
OwnsOutlet(n, current) ==
    /\ Qualifies(n, current)
    /\ \E c \in NodesOf(n.route.children, n.full, n.depth + 1) :
           /\ c.depth = n.depth + 1
           /\ c.full # <<>>
           /\ BoundaryPrefix(c.full, current)

---------------------------------------------------------------------------
(* route.rs : substitute_params, NamedRouteRegistry::url_for;
   context.rs : GlobalRouter::url_for, GlobalRouter::push_named *)

\* str::replace(from, to): every non-overlapping occurrence of `from`, found
\* scanning left to right, is replaced by `to`
RECURSIVE ReplaceFrom(_, _, _, _)
ReplaceFrom(s, from, to, i) ==
    IF i >= Len(s)
    THEN <<>>
    ELSE IF StartsWith(SubSeq(s, i + 1, Len(s)), from)
         THEN to \o ReplaceFrom(s, from, to, i + Len(from))
         ELSE <<s[i + 1]>> \o ReplaceFrom(s, from, to, i + 1)

Replace(s, from, to) == ReplaceFrom(s, from, to, 0)

\* the orders in which params.iter() can yield the entries of a HashMap: the
\* standard library leaves the order unspecified, so every enumeration of the
\* keys is possible
IterOrders(params) ==
    {order \in [1..Cardinality(DOMAIN params) -> DOMAIN params] :
        \A i, j \in DOMAIN order : i # j => order[i] # order[j]}

\* the loop of substitute_params from its i-th iteration (0-based) on
RECURSIVE SubstituteFrom(_, _, _, _)
SubstituteFrom(result, params, order, i) ==
    IF i >= Len(order)
    THEN result
    ELSE LET key == order[i + 1]
             placeholder == <<":">> \o key
         IN SubstituteFrom(Replace(result, placeholder, params[key]),
                           params, order, i + 1)

\* substitute_params(pattern, params), `order` being the order in which
\* params.iter() yields the entries in this call
substitute_params(pattern, params, order) ==
    SubstituteFrom(pattern, params, order, 0)

NamedRouteRegistry_get(registry, name) ==
    IF name \in DOMAIN registry THEN Some(registry[name]) ELSE None

NamedRouteRegistry_url_for(registry, name, params, order) ==
    LET pattern == NamedRouteRegistry_get(registry, name)
    IN IF pattern = None
       THEN None
       ELSE Some(substitute_params(pattern[1], params, order))

GlobalRouter_url_for(g, name, params, order) ==
    NamedRouteRegistry_url_for(g.named_routes, name, params, order)

\* a push_named that goes through push() even when the name is unknown
GlobalRouter_push_named_always_clears(g, name, params, order) ==
    LET url == NamedRouteRegistry_url_for(g.named_routes, name, params, order)
    IN IF url = None
       THEN [router |-> [g EXCEPT !.nested_cache = RouteCache_clear(@)],
             event |-> None]
       ELSE GlobalRouter_push(g, url[1])

GlobalRouter_push_named(g, name, params, order) ==
    LET url == NamedRouteRegistry_url_for(g.named_routes, name, params, order)
    IN IF url = None
       THEN [router |-> g, event |-> None]
       ELSE GlobalRouter_push(g, url[1])

---------------------------------------------------------------------------
(* Reverse URL generation on the facade: add_route of named routes, url_for
   and push_named *)

PatternUserDetail == <<"/", "u", "s", "e", "r", "s", "/", ":", "i", "d">>
PatternPair == <<"/", ":", "i", "d", "/", ":", "i", "d", "2">>
PathUser42 == <<"/", "u", "s", "e", "r", "s", "/", "4", "2">>

RouteUserDetail == [Route_new(PatternUserDetail) EXCEPT !.name = Some("user.detail")]
\* a route with two parameters, the name of one a prefix of the other's
RoutePair == [Route_new(PatternPair) EXCEPT !.name = Some("pair")]
NamedRoutes == {RouteUserDetail, RoutePair}

\* the names asked for: the two registered above and one that never is
RouteNames == {"user.detail", "pair", "missing"}

KeyId == <<"i", "d">>
KeyId2 == <<"i", "d", "2">>
ParamKeys == {KeyId, KeyId2}
ParamValues == {<<"4", "2">>, <<"7">>}
\* the parameter maps passed in: every map from some of the keys to the values
ParamMaps == UNION {[keys -> ParamValues] : keys \in SUBSET ParamKeys}

\* the record of a call: its name, the route name and the parameters it was
\* given, and the order in which it visited the parameters
NamedCall(op, name, params, order) ==
    [op |-> op, name |-> name, params |-> params, order |-> order]

NamedAddRoute(route) ==
    /\ CanInvalidate
    /\ Len(state.routes) < MaxRoutes
    /\ SetRouter(GlobalRouter_add_route(Router, route))
    /\ ret' = None
    /\ last' = NamedCall("add_route", route.name[1], EmptyMap, <<>>)
    /\ UNCHANGED <<hist, guard_check>>

NamedUrlFor(name, params, order) ==
    /\ ret' = GlobalRouter_url_for(Router, name, params, order)
    /\ last' = NamedCall("url_for", name, params, order)
    /\ UNCHANGED <<hist, state, nested_cache, named_routes, guard_check>>

NamedPushNamed(name, params, order) ==
    /\ CanInvalidate
    /\ SetRouter(GlobalRouter_push_named(Router, name, params, order).router)
    /\ ret' = GlobalRouter_push_named(Router, name, params, order).event
    /\ last' = NamedCall("push_named", name, params, order)
    /\ UNCHANGED <<hist, guard_check>>

NamedInit ==
    /\ RouterIdle
    /\ HistoryIdle
    /\ GuardCheckIdle
    /\ ret = None
    /\ last = NamedCall("new", "", EmptyMap, <<>>)

NamedNext ==
    \/ \E route \in NamedRoutes : NamedAddRoute(route)
    \/ \E name \in RouteNames, params \in ParamMaps :
           \E order \in IterOrders(params) : NamedUrlFor(name, params, order)
    \/ \E name \in RouteNames, params \in ParamMaps :
           \E order \in IterOrders(params) : NamedPushNamed(name, params, order)

NamedSpec == NamedInit /\ [][NamedNext]_vars

\* C18: push_named with a name that is not registered returns nothing and
\* changes nothing (history, current index, current path, and the rest of the
\* router are as before); with a registered name it performs exactly one push
\* of url_for(name, params): the entries up to the current one are kept, the
\* URL is appended as the only new entry and becomes the current path.
C18_Step ==
    last'.op = "push_named" =>
        LET url == GlobalRouter_url_for(Router, last'.name, last'.params,
                                        last'.order)
        IN IF last'.name \notin DOMAIN named_routes
           THEN /\ ret' = None
                /\ url = None
                /\ state' = state
                /\ nested_cache' = nested_cache
                /\ named_routes' = named_routes
           ELSE /\ ret' # None
                /\ url # None
                /\ ret'[1].to = url[1]
                /\ state'.history =
                       Append(Truncate(state.history, state.current + 1), url[1])
                /\ state'.current = state.current + 1
                /\ RouterState_current_path(state') = url[1]
                /\ state'.routes = state.routes
                /\ named_routes' = named_routes

C18_PushNamed == [][C18_Step]_vars

\* push_named("user.detail", {id: "42"}) made on "/users/7" after a
\* push_named: "/users/42" is current, behind it "/" and "/users/7"
C18_Witness ==
    /\ last.op = "push_named"
    /\ last.name = "user.detail"
    /\ ret # None
    /\ Len(state.history) = 3
    /\ state.current = 2
    /\ RouterState_current_path(state) = PathUser42

\* the pattern with each `:name` token (the name running to the next "/" or
\* to the end) replaced by the value the map holds for exactly that name, and
\* left in place when the map has no such name
RECURSIVE NameEnd(_, _)
NameEnd(s, i) ==
    IF i > Len(s) \/ s[i] = "/" THEN i ELSE NameEnd(s, i + 1)

RECURSIVE ReplaceTokensFrom(_, _, _)
ReplaceTokensFrom(s, params, i) ==
    IF i > Len(s)
    THEN <<>>
    ELSE IF s[i] = ":"
         THEN LET e == NameEnd(s, i + 1)
                  name == SubSeq(s, i + 1, e - 1)
              IN (IF name \in DOMAIN params
                  THEN params[name]
                  ELSE SubSeq(s, i, e - 1))
                 \o ReplaceTokensFrom(s, params, e)
         ELSE <<s[i]>> \o ReplaceTokensFrom(s, params, i + 1)

ReplaceTokens(pattern, params) == ReplaceTokensFrom(pattern, params, 1)

\* C19: url_for(name, params) on a registered name returns the pattern with
\* every `:param` token replaced by the value of exactly that parameter, and
\* returns the same URL whatever the order in which the parameters are
\* visited, also when one parameter name is a prefix of another.
C19_UrlForSubstitutesTokens ==
    (last.op = "url_for" /\ last.name \in DOMAIN named_routes) =>
        /\ ret = Some(ReplaceTokens(named_routes[last.name], last.params))
        /\ \A order \in IterOrders(last.params) :
               GlobalRouter_url_for(Router, last.name, last.params, order) = ret

\* the part of C19 that the substitution does deliver: when no parameter of
\* the map has a name that is a proper prefix of a token of the pattern, the
\* URL is the token-wise replacement, in every visiting order
PrefixFree(pattern, params) ==
    \A key \in DOMAIN params :
        \A i \in 1..Len(pattern) :
            (pattern[i] = ":" /\ StartsWith(SubSeq(pattern, i + 1, Len(pattern)), key))
                => NameEnd(pattern, i + 1) = i + 1 + Len(key)

C19_UrlForPrefixFree ==
    (/\ last.op = "url_for"
     /\ last.name \in DOMAIN named_routes
     /\ PrefixFree(named_routes[last.name], last.params)) =>
        /\ ret = Some(ReplaceTokens(named_routes[last.name], last.params))
        /\ \A order \in IterOrders(last.params) :
               GlobalRouter_url_for(Router, last.name, last.params, order) = ret

---------------------------------------------------------------------------
(* cache.rs : CacheStats hit rates, and the calls on a RouteCache of its own *)

\* an f64 quotient a as f64 / b as f64, kept as the fraction a / b; two
\* quotients are the same number when they cross-multiply to the same product
Ratio(num, den) == [num |-> num, den |-> den]

RatEq(a, b) == a.num * b.den = b.num * a.den

CacheStats_parent_hit_rate(stats) ==
    LET total == stats.parent_hits + stats.parent_misses
    IN IF total = 0 THEN Ratio(0, 1) ELSE Ratio(stats.parent_hits, total)

\* a rate taken over the misses instead of over all lookups
CacheStats_overall_hit_rate_over_misses(stats) ==
    LET total_hits == stats.parent_hits + stats.child_hits
        total_misses == stats.parent_misses + stats.child_misses
    IN IF total_misses = 0 THEN Ratio(0, 1) ELSE Ratio(total_hits, total_misses)

CacheStats_overall_hit_rate(stats) ==
    LET total_hits == stats.parent_hits + stats.child_hits
        total_misses == stats.parent_misses + stats.child_misses
        total == total_hits + total_misses
    IN IF total = 0 THEN Ratio(0, 1) ELSE Ratio(total_hits, total)

RouteCache_stats(c) == c.stats

\* most calls made on the cache in a run
MaxCalls == 6

\* the capacities the cache is built with: one entry, and the default
CacheCapacities == {1, RouteCache_DEFAULT_CAPACITY}

\* the record of the calls made on the cache since it was built: for each its
\* name, its key and whether it returned an entry
CacheCall(op, path, hit) == [op |-> op, path |-> path, hit |-> hit]

Logged(op, path, hit) ==
    [op |-> op, calls |-> Append(last.calls, CacheCall(op, path, hit))]

CacheIdle == <<hist, state, named_routes, guard_check>>

CGetParent(path) ==
    /\ Len(last.calls) < MaxCalls
    /\ nested_cache' = RouteCache_get_parent(nested_cache, path).cache
    /\ ret' = RouteCache_get_parent(nested_cache, path).ret
    /\ last' = Logged("get_parent", path, ret' # None)
    /\ UNCHANGED CacheIdle

CSetParent(path, parent_route_id) ==
    /\ Len(last.calls) < MaxCalls
    /\ nested_cache' = RouteCache_set_parent(nested_cache, path, parent_route_id)
    /\ ret' = None
    /\ last' = Logged("set_parent", path, FALSE)
    /\ UNCHANGED CacheIdle

CClear ==
    /\ Len(last.calls) < MaxCalls
    /\ nested_cache' = RouteCache_clear(nested_cache)
    /\ ret' = None
    /\ last' = Logged("clear", None, FALSE)
    /\ UNCHANGED CacheIdle

CacheInit ==
    /\ \E capacity \in CacheCapacities :
           nested_cache = RouteCache_with_capacity(capacity)
    /\ state = GlobalRouter_new.state
    /\ named_routes = GlobalRouter_new.named_routes
    /\ HistoryIdle
    /\ GuardCheckIdle
    /\ ret = None
    /\ last = [op |-> "new", calls |-> <<>>]

CacheNext ==
    \/ \E path \in ParentKeys : CGetParent(path)
    \/ \E path \in ParentKeys : CSetParent(path, ParentId)
    \/ CClear

CacheSpec == CacheInit /\ [][CacheNext]_vars

\* the calls made are n get_parent misses on n distinct keys, then n
\* set_parent and n get_parent hits on those keys
MissesThenHits(calls, n) ==
    /\ Len(calls) = 3 * n
    /\ \A i \in 1..n : calls[i].op = "get_parent" /\ ~calls[i].hit
    /\ \A i, j \in 1..n : i # j => calls[i].path # calls[j].path
    /\ \A i \in (n + 1)..(3 * n) :
           /\ calls[i].path \in {calls[j].path : j \in 1..n}
           /\ \/ calls[i].op = "set_parent"
              \/ calls[i].op = "get_parent" /\ calls[i].hit
    /\ Cardinality({i \in (n + 1)..(3 * n) : calls[i].op = "set_parent"}) = n

\* C20: on a fresh cache, after N get_parent misses on N distinct keys and
\* then N set_parent insertions and N get_parent hits on those keys,
\* parent_hits = N, parent_misses = N and overall_hit_rate = N / (2N).
C20_HitRate ==
    \A n \in 1..MaxCalls :
        MissesThenHits(last.calls, n) =>
            /\ RouteCache_stats(nested_cache).parent_hits = n
            /\ RouteCache_stats(nested_cache).parent_misses = n
            /\ RatEq(CacheStats_overall_hit_rate(RouteCache_stats(nested_cache)),
                     Ratio(n, 2 * n))

\* two misses on "/a" and "/b", then their two insertions and two hits, on a
\* cache that holds one entry
C20_Witness ==
    /\ MissesThenHits(last.calls, 2)
    /\ nested_cache.cap = 1
    /\ RouteCache_stats(nested_cache).parent_hits = 2
    /\ RouteCache_parent_cache_size(nested_cache) = 1

\* C21: RouteCache::clear makes the cache size 0, adds exactly 1 to
\* invalidations and leaves every hit and miss counter as it was.
C21_Step ==
    last'.op = "clear" =>
        /\ RouteCache_total_size(nested_cache') = 0
        /\ RouteCache_parent_cache_size(nested_cache') = 0
        /\ RouteCache_child_cache_size(nested_cache') = 0
        /\ nested_cache'.stats.invalidations = nested_cache.stats.invalidations + 1
        /\ nested_cache'.stats.parent_hits = nested_cache.stats.parent_hits
        /\ nested_cache'.stats.parent_misses = nested_cache.stats.parent_misses
        /\ nested_cache'.stats.child_hits = nested_cache.stats.child_hits
        /\ nested_cache'.stats.child_misses = nested_cache.stats.child_misses

C21_ClearKeepsCounters == [][C21_Step]_vars

\* a clear of a cache that held an entry and had counted a hit and a miss
C21_Witness ==
    /\ last.op = "clear"
    /\ Len(last.calls) >= 4
    /\ last.calls[Len(last.calls) - 1].op = "get_parent"
    /\ last.calls[Len(last.calls) - 1].hit
    /\ RouteCache_total_size(nested_cache) = 0
    /\ nested_cache.stats.parent_hits >= 1
    /\ nested_cache.stats.parent_misses >= 1
    /\ nested_cache.stats.invalidations = 1

---------------------------------------------------------------------------
(* matcher.rs : RoutePattern::matches, Constraint::validate *)

AsciiDigits == {"0", "1", "2", "3", "4", "5", "6", "7", "8", "9"}
AsciiHexDigits ==
    AsciiDigits \cup {"a", "b", "c", "d", "e", "f", "A", "B", "C", "D", "E", "F"}

Constraint_validate(constraint, value) ==
    IF constraint.kind = "Numeric"
    THEN \A i \in 1..Len(value) : value[i] \in AsciiDigits
    ELSE IF constraint.kind = "Uuid"
    THEN LET parts == SplitOn(value, "-")
         IN IF Len(parts) # 5
            THEN FALSE
            ELSE /\ Len(parts[1]) = 8
                 /\ Len(parts[2]) = 4
                 /\ Len(parts[3]) = 4
                 /\ Len(parts[4]) = 4
                 /\ Len(parts[5]) = 12
                 /\ \A k \in 1..5 : \A i \in 1..Len(parts[k]) :
                        parts[k][i] \in AsciiHexDigits
    ELSE TRUE

\* the while loop of match_segments from pattern_idx on, path_idx being the
\* number of path segments consumed so far
RECURSIVE MatchSegmentsFrom(_, _, _, _, _)
MatchSegmentsFrom(segments, path_segments, pattern_idx, path_idx, params) ==
    IF pattern_idx >= Len(segments)
    THEN IF path_idx = Len(path_segments) THEN Some(params) ELSE None
    ELSE LET segment == segments[pattern_idx + 1]
         IN IF segment.kind = "Static"
            THEN IF path_idx >= Len(path_segments)
                    \/ path_segments[path_idx + 1] # segment.text
                 THEN None
                 ELSE MatchSegmentsFrom(segments, path_segments, pattern_idx + 1,
                                        path_idx + 1, params)
            ELSE IF segment.kind = "Param"
            THEN IF path_idx >= Len(path_segments)
                 THEN None
                 ELSE LET value == path_segments[path_idx + 1]
                      IN IF segment.constraint # None
                            /\ ~Constraint_validate(segment.constraint[1], value)
                         THEN None
                         ELSE MatchSegmentsFrom(segments, path_segments,
                                  pattern_idx + 1, path_idx + 1,
                                  MapInsert(params, segment.name, value))
            ELSE IF segment.kind = "Optional"
            THEN IF /\ path_idx < Len(path_segments)
                    /\ segment.inner.kind = "Param"
                    /\ (segment.inner.constraint = None
                        \/ Constraint_validate(segment.inner.constraint[1],
                                               path_segments[path_idx + 1]))
                 THEN MatchSegmentsFrom(segments, path_segments, pattern_idx + 1,
                          path_idx + 1,
                          MapInsert(params, segment.inner.name,
                                    path_segments[path_idx + 1]))
                 ELSE MatchSegmentsFrom(segments, path_segments, pattern_idx + 1,
                                        path_idx, params)
            ELSE Some(params)

RoutePattern_match_segments(pattern, path_segments) ==
    MatchSegmentsFrom(pattern.segments, path_segments, 0, 0, EmptyMap)

\* a matches that accepts a path once the pattern is used up
RoutePattern_matches_prefix(pattern, path) ==
    LET path_segments == Split(path)
        n == IF Len(pattern.segments) < Len(path_segments)
             THEN Len(pattern.segments)
             ELSE Len(path_segments)
    IN IF Len(path_segments) < Len(pattern.segments)
       THEN None
       ELSE RoutePattern_match_segments(pattern, SubSeq(path_segments, 1, n))

RoutePattern_matches(pattern, path) ==
    RoutePattern_match_segments(pattern, Split(path))

---------------------------------------------------------------------------
(* The two matchers applied to a pattern and a path *)

\* most segments of a pattern, most segments of a path, and most parameter
\* segments of a pattern that consists of parameters only
MaxPatternSegs == 3
MaxPathSegs == 3
MaxParams == 12

\* the segments patterns are written with, and those paths are written with
PatternSegs == {<<"a">>, <<"b">>, <<":", "x">>, <<":", "y">>, <<"*">>}
PathSegs == {<<"a">>, <<"b">>}

\* "/" followed by the segments joined with "/"; "/" alone when there are none
RECURSIVE JoinSegs(_)
JoinSegs(segs) ==
    IF segs = <<>>
    THEN <<>>
    ELSE <<"/">> \o Head(segs) \o JoinSegs(Tail(segs))

PathOfSegs(segs) == IF segs = <<>> THEN <<"/">> ELSE JoinSegs(segs)

ShortPatterns == {PathOfSegs(segs) : segs \in SeqsUpTo(PatternSegs, MaxPatternSegs)}

\* the names of the parameters of a pattern made of parameters only
ParamLetters ==
    <<"a", "b", "c", "d", "e", "f", "g", "h", "i", "j", "k", "l", "m", "n">>

\* "/:a/:b/..." with k parameter segments, after the static segments `head`
ParamRun(head, k) ==
    PathOfSegs(head \o [i \in 1..k |-> <<":", ParamLetters[i]>>])

ParamRuns ==
    {ParamRun(head, k) : head \in {<<>>, <<<<"s">>>>}, k \in 0..MaxParams}

\* the paths matched: the segments joined, with and without a trailing slash,
\* and with a doubled leading slash
MatcherPaths ==
    LET plain == {PathOfSegs(segs) : segs \in SeqsUpTo(PathSegs, MaxPathSegs)}
    IN plain \cup {path \o <<"/">> : path \in plain \ {<<"/">>}}
             \cup {<<"/">> \o path : path \in plain \ {<<"/">>}}

MatcherIdle ==
    /\ RouterIdle
    /\ HistoryIdle
    /\ GuardCheckIdle

MatcherCall(op, pattern, path) == [op |-> op, pattern |-> pattern, path |-> path]

MatcherFrame == <<hist, state, nested_cache, named_routes, guard_check>>

MMatchPath ==
    /\ last.op = "new"
    /\ ret' = match_path(last.pattern, last.path)
    /\ last' = [last EXCEPT !.op = "match_path"]
    /\ UNCHANGED MatcherFrame

MFromPath ==
    /\ last.op = "new"
    /\ ret' = RoutePattern_from_path(last.pattern)
    /\ last' = [last EXCEPT !.op = "from_path"]
    /\ UNCHANGED MatcherFrame

MMatches ==
    /\ last.op = "new"
    /\ ret' = RoutePattern_matches(RoutePattern_from_path(last.pattern), last.path)
    /\ last' = [last EXCEPT !.op = "matches"]
    /\ UNCHANGED MatcherFrame

MatcherInit ==
    /\ MatcherIdle
    /\ ret = None
    /\ \/ \E pattern \in ShortPatterns, path \in MatcherPaths :
              last = MatcherCall("new", pattern, path)
       \/ \E pattern \in ParamRuns :
              last = MatcherCall("new", pattern, PathRoot)

MatcherNext ==
    \/ MMatchPath
    \/ MFromPath
    \/ MMatches

MatcherSpec == MatcherInit /\ [][MatcherNext]_vars

\* a pattern made only of static segments: none is "*" and none starts with ':'
StaticPattern(pattern) ==
    \A i \in 1..Len(Split(pattern)) :
        /\ Split(pattern)[i] # <<"*">>
        /\ Split(pattern)[i][1] # ":"

\* the pattern and the path have the same non-empty segments, one by one
SameSegments(pattern, path) ==
    /\ Len(Split(pattern)) = Len(Split(path))
    /\ \A i \in 1..Len(Split(pattern)) : Split(pattern)[i] = Split(path)[i]

\* C22: for a pattern P made only of static segments and a path p, the match
\* succeeds, in match_path and in RoutePattern::matches alike, exactly when P
\* and p have the same number of non-empty segments and every segment of p
\* equals the corresponding segment of P.
C22_StaticMatch ==
    (last.op \in {"match_path", "matches"} /\ StaticPattern(last.pattern)) =>
        ((ret # None) <=> SameSegments(last.pattern, last.path))

\* RoutePattern::matches has accepted "//a/b" for the static pattern "/a/b"
C22_Witness ==
    /\ last.op = "matches"
    /\ last.pattern = <<"/", "a", "/", "b">>
    /\ last.path = <<"/", "/", "a", "/", "b">>
    /\ ret = Some(EmptyMap)

\* the number of parameter segments of a pattern, and whether it has a wildcard
ParamCount(pattern) ==
    Cardinality({i \in 1..Len(Split(pattern)) : Split(pattern)[i][1] = ":"})

HasWildcard(pattern) ==
    \E i \in 1..Len(Split(pattern)) : Split(pattern)[i] = <<"*">>

---------------------------------------------------------------------------
(* History: back and forward as inverses, events, the size limit, restore *)

\* C24: back() returns an event exactly when can_go_back() held before the
\* call, forward() exactly when can_go_forward() held; after a back() that
\* succeeded, a forward() made next succeeds and restores the index and the
\* path that were current before the back(), and likewise a back() made right
\* after a forward() that succeeded.
C24_Step ==
    /\ last'.op = "back" =>
           /\ (ret' # None) <=> History_can_go_back(hist)
           /\ ret' # None =>
                  /\ History_forward(hist').event # None
                  /\ History_forward(hist').hist.current = hist.current
                  /\ History_current_path(History_forward(hist').hist) =
                         History_current_path(hist)
                  /\ History_forward(hist').hist.entries = hist.entries
    /\ last'.op = "forward" =>
           /\ (ret' # None) <=> History_can_go_forward(hist)
           /\ ret' # None =>
                  /\ History_back(hist').event # None
                  /\ History_back(hist').hist.current = hist.current
                  /\ History_current_path(History_back(hist').hist) =
                         History_current_path(hist)
                  /\ History_back(hist').hist.entries = hist.entries

C24_BackForwardInverse == [][C24_Step]_vars

\* a forward made right after a back from index 2: index 2 is current again
C24_Witness ==
    /\ last.op = "forward"
    /\ last.prev = "back"
    /\ ret # None
    /\ last.pre_current = 1
    /\ hist.current = 2
    /\ Len(hist.entries) = 3

\* the direction each operation reports
DirectionOf(op) ==
    IF op \in {"push", "push_with_state", "forward"} THEN "Forward"
    ELSE IF op = "back" THEN "Back"
    ELSE "Replace"

EventOps ==
    {"push", "push_with_state", "replace", "replace_with_state", "back", "forward"}

\* C25: every navigation event reports the real transition: `from` is the path
\* that was current before the operation, `to` is current_path() after it, and
\* the direction is Forward for push and forward, Back for back, Replace for
\* replace; push and replace always return an event.
C25_Step ==
    last'.op \in EventOps =>
        /\ last'.op \notin {"back", "forward"} => ret' # None
        /\ ret' # None =>
               /\ ret'[1].from = Some(History_current_path(hist))
               /\ ret'[1].to = History_current_path(hist')
               /\ ret'[1].direction = DirectionOf(last'.op)

C25_EventReportsTransition == [][C25_Step]_vars

\* a back from "/b" to "/a": the event says so
C25_Witness ==
    /\ last.op = "back"
    /\ ret # None
    /\ ret[1].from = Some(PathB)
    /\ ret[1].to = PathA
    /\ ret[1].direction = "Back"
    /\ History_current_path(hist) = PathA

\* C26: in a History created with max_size M > 0, len() <= M in every
\* reachable state, after any sequence of push, push_with_state, replace, back,
\* forward, clear and restore.
C26_LenWithinMaxSize ==
    hist.max_size > 0 => History_len(hist) <= hist.max_size

\* C27: restore(entries, current) with an empty entry list or with
\* current >= len(entries) leaves the History as it was; with valid arguments
\* it makes entries and current exactly the given values (max_size is kept).
C27_RestoreValidates ==
    \A es \in RestoreLists, cur \in 0..MaxLen :
        LET r == History_restore(hist, es, cur)
        IN IF es = <<>> \/ cur >= Len(es)
           THEN r = hist
           ELSE /\ r.entries = es
                /\ r.current = cur
                /\ r.max_size = hist.max_size

\* a restore that installed three entries with the last one current, on a
\* stack that had a different length
C27_Witness ==
    /\ last.op = "restore"
    /\ last.pre_len = 2
    /\ hist.entries = [i \in 1..3 |-> RestoreEntry(i)]
    /\ hist.current = 2

---------------------------------------------------------------------------
(* RouterState and an unbounded History driven by the same calls *)

\* what one call returned on each side
BothEvents(state_event, history_event) ==
    [state |-> state_event, history |-> history_event]

LockstepFrame == <<nested_cache, named_routes, guard_check>>

LPush(path) ==
    /\ hist.current + 2 <= MaxLen
    /\ state' = RouterState_push(state, path).state
    /\ hist' = History_push(hist, path).hist
    /\ ret' = BothEvents(RouterState_push(state, path).event,
                         History_push(hist, path).event)
    /\ last' = [op |-> "push", prev |-> last.op]
    /\ UNCHANGED LockstepFrame

LReplace(path) ==
    /\ state' = RouterState_replace(state, path).state
    /\ hist' = History_replace(hist, path).hist
    /\ ret' = BothEvents(RouterState_replace(state, path).event,
                         History_replace(hist, path).event)
    /\ last' = [op |-> "replace", prev |-> last.op]
    /\ UNCHANGED LockstepFrame

LBack ==
    /\ state' = RouterState_back(state).state
    /\ hist' = History_back(hist).hist
    /\ ret' = BothEvents(RouterState_back(state).event, History_back(hist).event)
    /\ last' = [op |-> "back", prev |-> last.op]
    /\ UNCHANGED LockstepFrame

LForward ==
    /\ state' = RouterState_forward(state).state
    /\ hist' = History_forward(hist).hist
    /\ ret' = BothEvents(RouterState_forward(state).event,
                         History_forward(hist).event)
    /\ last' = [op |-> "forward", prev |-> last.op]
    /\ UNCHANGED LockstepFrame

LockstepInit ==
    /\ RouterIdle
    /\ HistoryIdle
    /\ GuardCheckIdle
    /\ ret = BothEvents(None, None)
    /\ last = [op |-> "new", prev |-> "new"]

LockstepNext ==
    \/ \E path \in Paths : LPush(path)
    \/ \E path \in Paths : LReplace(path)
    \/ LBack
    \/ LForward

LockstepSpec == LockstepInit /\ [][LockstepNext]_vars

\* the paths of the entries of a History, in order
PathsOf(entries) == [i \in 1..Len(entries) |-> entries[i].path]

\* C28: the history kept by RouterState and an unbounded History started at
\* "/" stay in lockstep: after any common sequence of push, replace, back and
\* forward they hold the same sequence of paths and the same current index,
\* and each operation returned the same event or the same absence of one.
C28_Lockstep ==
    /\ state.history = PathsOf(hist.entries)
    /\ state.current = hist.current
    /\ ret.state = ret.history

\* a push made after a back, on both sides: the forward entry is gone
C28_Witness ==
    /\ last.op = "push"
    /\ last.prev = "back"
    /\ ret.state # None
    /\ ret.state[1].from = Some(PathRoot)
    /\ state.history = <<PathRoot, PathB>>
    /\ hist.current = 1

---------------------------------------------------------------------------
(* The parent-lookup cache at small capacities: what a full cache evicts *)

\* the capacities at which eviction happens within a few calls
SmallCapacities == {1, 2}

\* the keys ever used (inserted by set_parent or found by get_parent), the
\* least recently used first
Used(recent, key) == SelectSeq(recent, LAMBDA k : k # key) \o <<key>>

LruCall(op, path, recent) == [op |-> op, path |-> path, recent |-> recent]

LruFrame == <<hist, state, named_routes, guard_check>>

LruSetParent(path, parent_route_id) ==
    /\ nested_cache' = RouteCache_set_parent(nested_cache, path, parent_route_id)
    /\ ret' = None
    /\ last' = LruCall("set_parent", path, Used(last.recent, path))
    /\ UNCHANGED LruFrame

LruGetParent(path) ==
    /\ nested_cache.stats.parent_hits + nested_cache.stats.parent_misses < MaxLookups
    /\ nested_cache' = RouteCache_get_parent(nested_cache, path).cache
    /\ ret' = RouteCache_get_parent(nested_cache, path).ret
    /\ last' = LruCall("get_parent", path,
                       IF ret' # None THEN Used(last.recent, path) ELSE last.recent)
    /\ UNCHANGED LruFrame

LruInit ==
    /\ \E capacity \in SmallCapacities :
           nested_cache = RouteCache_with_capacity(capacity)
    /\ state = GlobalRouter_new.state
    /\ named_routes = GlobalRouter_new.named_routes
    /\ HistoryIdle
    /\ GuardCheckIdle
    /\ ret = None
    /\ last = LruCall("new", None, <<>>)

LruNext ==
    \/ \E path \in Paths : LruSetParent(path, ParentId)
    \/ \E path \in Paths : LruGetParent(path)

LruSpec == LruInit /\ [][LruNext]_vars

\* position of a key in the record of uses
RECURSIVE UsePosition(_, _)
UsePosition(recent, key) ==
    IF Head(recent) = key THEN 1 ELSE 1 + UsePosition(Tail(recent), key)

\* C29: the parent-lookup cache never holds more entries than its fixed
\* non-zero capacity, and when a new key is inserted into a full cache the one
\* entry evicted is the least recently used, a set_parent and a get_parent hit
\* both counting as a use.
C29_Step ==
    LET before == LruKeys(nested_cache.parent_cache)
        after == LruKeys(nested_cache'.parent_cache)
    IN /\ nested_cache'.cap = nested_cache.cap
       /\ nested_cache'.cap > 0
       /\ RouteCache_parent_cache_size(nested_cache') <= nested_cache'.cap
       /\ (/\ last'.op = "set_parent"
           /\ last'.path \notin before
           /\ RouteCache_parent_cache_size(nested_cache) = nested_cache.cap) =>
              \E evicted \in before :
                  /\ after = (before \ {evicted}) \cup {last'.path}
                  /\ \A kept \in before \ {evicted} :
                         UsePosition(last.recent, evicted)
                             < UsePosition(last.recent, kept)
       /\ ~(/\ last'.op = "set_parent"
            /\ last'.path \notin before
            /\ RouteCache_parent_cache_size(nested_cache) = nested_cache.cap) =>
              before \subseteq after

C29_LruEviction == [][C29_Step]_vars

\* set_parent("/") on a full cache of two, "/a" inserted first and then read
\* after "/b" was inserted: "/b" is evicted, "/a" stays
C29_Witness ==
    /\ last.op = "set_parent"
    /\ last.path = PathRoot
    /\ last.recent = <<PathB, PathA, PathRoot>>
    /\ nested_cache.cap = 2
    /\ nested_cache.stats.parent_hits = 1
    /\ LruKeys(nested_cache.parent_cache) = {PathA, PathRoot}

---------------------------------------------------------------------------
(* guards.rs : AuthGuard, RoleGuard, PermissionGuard *)

GuardResult_redirect_with_reason(to, reason) ==
    [kind |-> "Redirect", to |-> to, reason |-> Some(reason)]

\* a guard's functions read the application state: here whether a user is
\* logged in, the user's role if any, and the permissions the user holds
AuthGuard_new(redirect_path) ==
    [kind |-> "AuthGuard", redirect_path |-> redirect_path]

RoleGuard_new(required_role, redirect_path) ==
    [kind |-> "RoleGuard", required_role |-> required_role,
     redirect_path |-> redirect_path]

PermissionGuard_new(permission) ==
    [kind |-> "PermissionGuard", permission |-> permission, redirect_path |-> None]

PermissionGuard_with_redirect(guard, path) ==
    [guard EXCEPT !.redirect_path = Some(path)]

AuthGuard_check(guard, cx) ==
    IF cx.authenticated
    THEN GuardResult_allow
    ELSE GuardResult_redirect_with_reason(guard.redirect_path,
                                          "Authentication required")

RoleGuard_has_required_role(guard, cx) ==
    IF cx.role = None THEN FALSE ELSE cx.role[1] = guard.required_role

\* format!(...) is kept as the sequence of its pieces
RoleGuard_check(guard, cx) ==
    IF RoleGuard_has_required_role(guard, cx)
    THEN GuardResult_allow
    ELSE IF guard.redirect_path # None
         THEN GuardResult_redirect_with_reason(
                  guard.redirect_path[1],
                  <<"Requires '", guard.required_role, "' role">>)
         ELSE GuardResult_deny(<<"Missing required role: ", guard.required_role>>)

PermissionGuard_check(guard, cx) ==
    IF guard.permission \in cx.permissions
    THEN GuardResult_allow
    ELSE IF guard.redirect_path # None
         THEN GuardResult_redirect_with_reason(
                  guard.redirect_path[1],
                  <<"Missing permission: ", guard.permission>>)
         ELSE GuardResult_deny(<<"Missing permission: ", guard.permission>>)

RouteGuard_check(guard, cx) ==
    IF guard.kind = "AuthGuard" THEN AuthGuard_check(guard, cx)
    ELSE IF guard.kind = "RoleGuard" THEN RoleGuard_check(guard, cx)
    ELSE PermissionGuard_check(guard, cx)

RouteGuard_name(guard) == guard.kind

\* a priority table in which authentication comes after the other two
RouteGuard_priority_auth_last(guard) ==
    IF guard.kind = "AuthGuard" THEN 70
    ELSE IF guard.kind = "RoleGuard" THEN 90
    ELSE 80

RouteGuard_priority(guard) ==
    IF guard.kind = "AuthGuard" THEN 100
    ELSE IF guard.kind = "RoleGuard" THEN 90
    ELSE 80

---------------------------------------------------------------------------
(* A Guards::check call on a composite of the built-in guards *)

PathLogin == <<"/", "l", "o", "g", "i", "n">>

BuiltinGuards ==
    {AuthGuard_new(PathLogin),
     RoleGuard_new("admin", None),
     RoleGuard_new("admin", Some(PathA)),
     PermissionGuard_new("users.write"),
     PermissionGuard_with_redirect(PermissionGuard_new("users.write"), PathB)}

\* the composites: up to three members of different kinds, in any order
BuiltinLists ==
    {members \in SeqsUpTo(BuiltinGuards, 3) :
        \A i, j \in 1..Len(members) :
            i # j => members[i].kind # members[j].kind}

\* the application states the guards read
Contexts ==
    [authenticated : BOOLEAN,
     role : {None, Some("admin"), Some("guest")},
     permissions : {{}, {"users.write"}}]

\* a member as the composite sees it in one call: its name, its priority and
\* the result its check(cx, request) resolves to
Bound(guard, cx) ==
    [name |-> RouteGuard_name(guard), priority |-> RouteGuard_priority(guard),
     result |-> RouteGuard_check(guard, cx), guard |-> guard, cx |-> cx]

BoundList(members, cx) == [i \in 1..Len(members) |-> Bound(members[i], cx)]

BuiltinNext ==
    \/ \E members \in BuiltinLists, cx \in Contexts, overflow_checks \in BOOLEAN :
           GuardsCheck(BoundList(members, cx), overflow_checks)
    \/ GuardsAwait

BuiltinSpec == GuardsInit /\ [][BuiltinNext]_vars

\* the composite holds an AuthGuard, a RoleGuard and a PermissionGuard
HasAllThree(guards) ==
    /\ Len(guards) = 3
    /\ {guards[i].name : i \in 1..3} = {"AuthGuard", "RoleGuard", "PermissionGuard"}

\* C30: in a Guards composite of an AuthGuard, a RoleGuard and a
\* PermissionGuard in any insertion order, the results are considered in the
\* order authentication (100), role (90), permission (80), and when the
\* authentication predicate fails the composite returns the AuthGuard's
\* Redirect to the configured login path, whatever the other two answer.
C30_AuthFirst ==
    (/\ guard_check # None
     /\ HasAllThree(guard_check[1].guards)) =>
        /\ ~guard_check[1].panicked
        /\ [i \in 1..3 |-> guard_check[1].futures[i].name] =
               <<"AuthGuard", "RoleGuard", "PermissionGuard">>
        /\ [i \in 1..3 |-> guard_check[1].futures[i].priority] = <<100, 90, 80>>
        /\ (guard_check[1].done /\ ~guard_check[1].guards[1].cx.authenticated) =>
               ret = Some(GuardResult_redirect_with_reason(
                              PathLogin, "Authentication required"))

\* the composite [PermissionGuard, RoleGuard, AuthGuard] has answered for a
\* user who is not logged in and whose role and permission checks fail too
C30_Witness ==
    /\ guard_check # None
    /\ guard_check[1].done
    /\ HasAllThree(guard_check[1].guards)
    /\ guard_check[1].guards[1].name = "PermissionGuard"
    /\ guard_check[1].guards[3].name = "AuthGuard"
    /\ ~guard_check[1].guards[1].cx.authenticated
    /\ guard_check[1].guards[1].result.kind = "Deny"
    /\ guard_check[1].guards[2].result.kind = "Redirect"
    /\ ret # None
    /\ ret[1].kind = "Redirect"
    /\ ret[1].to = PathLogin

---------------------------------------------------------------------------
(* guards.rs : NotGuard, and a check call on one *)

NotGuard_new(guard) == [kind |-> "NotGuard", guard |-> guard]

\* an inversion that rebuilds the redirect from its target alone
NotGuard_invert_drops_reason(result) ==
    IF result.kind = "Allow"
    THEN GuardResult_deny("Inverted: guard allowed but NOT expected")
    ELSE IF result.kind = "Deny"
         THEN GuardResult_allow
         ELSE GuardResult_redirect(result.to)

\* the match of the async block on the inner guard's result
NotGuard_invert(result) ==
    IF result.kind = "Allow"
    THEN GuardResult_deny("Inverted: guard allowed but NOT expected")
    ELSE IF result.kind = "Deny"
         THEN GuardResult_allow
         ELSE result

NotGuard_priority(not_guard) == RouteGuard_priority(not_guard.guard)

\* <NotGuard as RouteGuard>::check up to the return of the boxed future: the
\* inner guard's check is invoked and its future kept
NotCheck(not_guard, cx) ==
    /\ guard_check = None
    /\ guard_check' =
           Some([guards |-> <<not_guard>>,
                 futures |-> <<Bound(not_guard.guard, cx)>>,
                 invoked |-> InvokeAll(<<Bound(not_guard.guard, cx)>>, 0),
                 awaited |-> 0, done |-> FALSE, panicked |-> FALSE])
    /\ ret' = None
    /\ last' = [op |-> "check"]
    /\ UNCHANGED OtherThanGuards

\* the `future.await` of the async block and the result it maps it to
NotAwait ==
    /\ guard_check # None
    /\ ~guard_check[1].done
    /\ guard_check' = Some([guard_check[1] EXCEPT !.awaited = 1, !.done = TRUE])
    /\ ret' = Some(NotGuard_invert(guard_check[1].futures[1].result))
    /\ last' = [op |-> "await"]
    /\ UNCHANGED OtherThanGuards

NotNext ==
    \/ \E guard \in BuiltinGuards, cx \in Contexts :
           NotCheck(NotGuard_new(guard), cx)
    \/ NotAwait

NotSpec == GuardsInit /\ [][NotNext]_vars

\* C31: NotGuard(g) returns Deny when g returns Allow, Allow when g returns
\* Deny, and a Redirect returned by g unchanged (same target, same reason).
C31_NotInverts ==
    (guard_check # None /\ guard_check[1].done) =>
        LET inner == guard_check[1].futures[1].result
        IN /\ ret # None
           /\ inner.kind = "Allow" => ret[1].kind = "Deny"
           /\ inner.kind = "Deny" => ret[1] = GuardResult_allow
           /\ inner.kind = "Redirect" =>
                  /\ ret[1].kind = "Redirect"
                  /\ ret[1].to = inner.to
                  /\ ret[1].reason = inner.reason

\* NotGuard over an AuthGuard whose predicate fails: the redirect to the login
\* path comes back with its reason
C31_Witness ==
    /\ guard_check # None
    /\ guard_check[1].done
    /\ guard_check[1].guards[1].guard.kind = "AuthGuard"
    /\ ret = Some(GuardResult_redirect_with_reason(PathLogin,
                                                   "Authentication required"))

---------------------------------------------------------------------------
(* Guards::check on members of equal priority *)

\* the members of one priority, in the order of the sequence
SamePriority(guards, p) == SelectSeq(guards, LAMBDA g : g.priority = p)

InvokedGuards(invoked) == [k \in 1..Len(invoked) |-> invoked[k].guard]

\* C32: members of a Guards composite that have equal priority are invoked
\* and awaited in the order they were inserted, and the result of the check
\* is the result of the first member in that order that does not allow.
C32_TiesInInsertionOrder ==
    (/\ guard_check # None
     /\ ~guard_check[1].panicked) =>
        LET c == guard_check[1]
        IN /\ \A i \in 1..Len(c.guards) :
                  /\ SamePriority(c.futures, c.guards[i].priority)
                         = SamePriority(c.guards, c.guards[i].priority)
                  /\ SamePriority(InvokedGuards(c.invoked), c.guards[i].priority)
                         = SamePriority(c.guards, c.guards[i].priority)
           /\ c.done =>
                  /\ ret # None
                  /\ \A i \in 1..Len(c.guards) :
                         (\A j \in 1..Len(c.guards) :
                              c.guards[j].priority = c.guards[i].priority) =>
                             ret[1] = FirstNonAllow(c.guards)

\* [owner/50 redirecting, role/50 denying]: the redirect, inserted first, wins
C32_Witness ==
    /\ guard_check # None
    /\ guard_check[1].done
    /\ guard_check[1].guards =
           <<Guard("owner", 50, GuardResult_redirect(PathA)),
             Guard("role", 50, GuardResult_deny("role"))>>
    /\ ret = Some(GuardResult_redirect(PathA))

---------------------------------------------------------------------------
(* resolve_child_route called on its own, with parameters of the parent *)

PathDash == <<"/", "d", "a", "s", "h">>
KeyX == <<"x">>

\* "/dash" with the static child "board" and the parameter child ":id"
RouteDash ==
    Route_children(Route_new(PathDash),
                   <<Route_new(<<"b", "o", "a", "r", "d">>), Route_new(<<":", "i", "d">>)>>)
\* "/a" with a static child and two index candidates, "index" before "/"
RouteIndexed ==
    Route_children(Route_new(PathA),
                   <<Route_new(<<"b">>), Route_new(<<"i", "n", "d", "e", "x">>), Route_new(<<"/">>)>>)

ResolveParents == {RouteB, RouteDashboard, RouteDash, RouteIndexed}

ResolvePaths ==
    {PathRoot, PathA, PathB, <<"/", "c">>, <<"/", "b", "/">>,
     <<"/", "a", "/", "b">>, <<"/", "a", "/", "c">>, <<"/", "b", "/", "a">>,
     <<"/", "b", "/", "c">>, <<"/", "b", "/", "a", "/", "c">>,
     PathDash, <<"/", "d", "a", "s", "h", "/", "x">>, <<"/", "d", "a", "s", "h", "/", "b", "o", "a", "r", "d">>,
     PathDashboard, PathDashboardAnalytics, <<"/", "d", "a", "s", "h", "b", "o", "a", "r", "d", "/", "x">>}

\* the parameters of the parent: every map from some of x, id to "7", "a"
ResolveParams ==
    UNION {[keys -> {<<"7">>, <<"a">>}] : keys \in SUBSET {KeyX, KeyId}}

ResolveCall(op, parent_route, current_path, parent_params, outlet_name) ==
    [op |-> op, parent_route |-> parent_route, current_path |-> current_path,
     parent_params |-> parent_params, outlet_name |-> outlet_name]

ResolveChild ==
    /\ last.op = "new"
    /\ ret' = resolve_child_route(last.parent_route, last.current_path,
                                  last.parent_params, last.outlet_name)
    /\ last' = [last EXCEPT !.op = "resolve_child_route"]
    /\ UNCHANGED <<hist, state, nested_cache, named_routes, guard_check>>

ResolveInit ==
    /\ MatcherIdle
    /\ ret = None
    /\ \E parent_route \in ResolveParents, current_path \in ResolvePaths,
          parent_params \in ResolveParams, outlet_name \in OutletNames :
           last = ResolveCall("new", parent_route, current_path, parent_params,
                              outlet_name)

ResolveNext == ResolveChild

ResolveSpec == ResolveInit /\ [][ResolveNext]_vars

Resolved == last.op = "resolve_child_route"

\* the candidate children of the call: those of the named outlet when a name
\* is given and the parent declares it, the default children without a name
Declares(parent_route, name) == name \in DOMAIN parent_route.named_children

Candidates ==
    IF last.outlet_name = None
    THEN last.parent_route.children
    ELSE IF Declares(last.parent_route, last.outlet_name[1])
         THEN last.parent_route.named_children[last.outlet_name[1]]
         ELSE <<>>

\* C33: resolve_child with an outlet name that the parent route does not
\* declare returns a miss: the call returns None, also when the default
\* children would have matched the path.
C33_UndeclaredOutletMisses ==
    (/\ Resolved
     /\ last.outlet_name # None
     /\ ~Declares(last.parent_route, last.outlet_name[1])) =>
        ret = None

\* outlet "side" of "/dashboard", which declares none, for the path
\* "/dashboard/analytics" that its default child analytics matches
C33_Witness ==
    /\ Resolved
    /\ last.outlet_name = Some(<<"s", "i", "d", "e">>)
    /\ last.parent_route = RouteDashboard
    /\ last.current_path = PathDashboardAnalytics
    /\ resolve_child_route(RouteDashboard, PathDashboardAnalytics,
                           last.parent_params, None) # None
    /\ ret = None

IsIndexRoute(route) ==
    route.path \in {<<>>, <<"/">>, <<"i", "n", "d", "e", "x">>}

\* C34: when the current path equals the parent's path, resolve_child returns
\* the first candidate whose path is empty, "/" or "index", with parameters
\* equal to parent_params, and a miss when no candidate is an index route.
C34_IndexRoute ==
    (/\ Resolved
     /\ TrimSlashes(last.current_path) = TrimSlashes(last.parent_route.path)) =>
        LET Index == {i \in 1..Len(Candidates) : IsIndexRoute(Candidates[i])}
        IN IF Index = {}
           THEN ret = None
           ELSE \E i \in Index :
                    /\ \A j \in Index : i <= j
                    /\ ret = Some([route |-> Candidates[i],
                                   params |-> last.parent_params])

\* "/a" under the parent "/a" whose children are "b", "index" and "/": the
\* child "index" with the two parameters of the parent
C34_Witness ==
    /\ Resolved
    /\ last.parent_route = RouteIndexed
    /\ last.current_path = PathA
    /\ last.outlet_name = None
    /\ DOMAIN last.parent_params = {KeyX, KeyId}
    /\ ret = Some([route |-> Route_new(<<"i", "n", "d", "e", "x">>),
                   params |-> last.parent_params])

\* the current path after the parent's path, both without leading slashes
Suffix ==
    LET parent_rel == TrimSlashes(last.parent_route.path)
        current_rel == TrimStartMatches(last.current_path, "/")
    IN SubSeq(current_rel, Len(parent_rel) + 1, Len(current_rel))

\* C35: the parameters returned with a static child equal parent_params; the
\* parameters returned with a parameter child are parent_params with the one
\* binding of the child's parameter name to the first segment of the suffix,
\* every other binding of parent_params kept; parent_params itself is as it
\* was passed in.
C35_ParentParamsKept ==
    (Resolved /\ ret # None) =>
        LET child_path == TrimStartMatches(ret[1].route.path, "/")
            merged == ret[1].params
            name == SubSeq(child_path, 2, Len(child_path))
        IN IF child_path # <<>> /\ child_path[1] = ":"
           THEN /\ DOMAIN merged = DOMAIN last.parent_params \cup {name}
                /\ merged[name] = Split(Suffix)[1]
                /\ \A k \in DOMAIN last.parent_params \ {name} :
                       merged[k] = last.parent_params[k]
           ELSE merged = last.parent_params

\* "/b/a" under "/b" with the parent's id = "7": the child ":x" with id = "7"
\* and x = "a"
C35_Witness ==
    /\ Resolved
    /\ last.parent_route = RouteB
    /\ last.current_path = <<"/", "b", "/", "a">>
    /\ last.parent_params = MapInsert(EmptyMap, KeyId, <<"7">>)
    /\ ret # None
    /\ ret[1].route = Route_new(<<":", "x">>)
    /\ ret[1].params = MapInsert(MapInsert(EmptyMap, KeyId, <<"7">>), KeyX, <<"a">>)

\* C36: resolve_child returns a miss whenever the current path is not under
\* the parent's path at a segment boundary: with the parent "/dash" the
\* current path "/dashboard/x" resolves no child.
C36_SegmentBoundary ==
    (/\ Resolved
     /\ ~BoundaryPrefix(TrimSlashes(last.parent_route.path),
                        TrimSlashes(last.current_path))) =>
        ret = None

---------------------------------------------------------------------------
(* the outlet below the first level of nesting *)

\* C37: whenever find_parent_route_for_path returns the parent P because a
\* child C of P has an accumulated full path equal to the current path, the
\* default outlet of P renders C for that path, also when P is itself a
\* nested route with a relative path.
C37_OutletComposes ==
    (/\ last.op = "render_router_outlet"
     /\ last.name = None) =>
        LET current == TrimSlashes(RouterState_current_path(state))
            parent_route == find_parent_route_for_path(
                                state.routes, RouterState_current_path(state))
        IN \A n \in NodesOf(state.routes, <<>>, 0) :
               (/\ parent_route = Some(n.route)
                /\ Qualifies(n, current)) =>
                   \A i \in 1..Len(n.route.children) :
                       ChildFullPath(n.route.children[i], n.full) = current =>
                           /\ ret.kind = "Rendered"
                           /\ ret.route = n.route.children[i]

---------------------------------------------------------------------------
(* match_path and RoutePattern::matches on the same pattern and path *)

\* C38: for every pattern without constraints and every path, match_path
\* succeeds exactly when RoutePattern::from_path(pattern).matches(path)
\* succeeds, and on success both extract the same parameter bindings, also
\* for patterns with a wildcard segment.
C38_MatchersAgree ==
    last.op = "match_path" =>
        LET matched == RoutePattern_matches(RoutePattern_from_path(last.pattern),
                                            last.path)
        IN /\ (ret # None) <=> (matched # None)
           /\ (ret # None /\ matched # None) => ret[1].params = matched[1]

---------------------------------------------------------------------------
(* Registration: a path is validated when a RouteConfig or Route is made *)

\* most segments of a registered path
MaxRegSegs == 2

\* the segments of the registered paths: static, empty, and parameters with
\* good and bad names, with and without a constraint in either bracket
RegSegs ==
    {<<"a">>, <<>>, <<":", "x">>, <<":", "y", "_", "1">>, <<":">>,
     <<":", "x", "-", "y">>, <<":", "x", "<", "u", "u", "i", "d", ">">>, <<":", "x", "{", "u", "u", "i", "d", "}">>, <<":", "{", "x", "}">>, <<":", "<", "x", ">">>}

RegPaths ==
    {<<>>, <<"a">>} \cup
    {JoinSegs(segs) : segs \in SeqsUpTo(RegSegs, MaxRegSegs) \ {<<>>}}

RegCall(op, path) == [op |-> op, path |-> path]

RegFrame == <<hist, nested_cache, named_routes, guard_check>>

RegTryNew ==
    /\ last.op = "new"
    /\ ret' = RouteConfig_try_new(last.path)
    /\ last' = [last EXCEPT !.op = "RouteConfig::try_new"]
    /\ UNCHANGED <<state, RegFrame>>

RegNew ==
    /\ last.op = "new"
    /\ ret' = RouteConfig_new(last.path)
    /\ last' = [last EXCEPT !.op = "RouteConfig::new"]
    /\ UNCHANGED <<state, RegFrame>>

\* router.add_route(Route::new(path, builder)): the panic of Route::new
\* unwinds before add_route is called
RegAddRoute ==
    /\ last.op = "new"
    /\ ret' = Route_new(last.path)
    /\ state' = IF Panicked(Route_new(last.path))
                THEN state
                ELSE RouterState_add_route(state, Route_new(last.path))
    /\ last' = [last EXCEPT !.op = "add_route"]
    /\ UNCHANGED RegFrame

RegInit ==
    /\ MatcherIdle
    /\ ret = None
    /\ \E path \in RegPaths : last = RegCall("new", path)

RegNext ==
    \/ RegTryNew
    \/ RegNew
    \/ RegAddRoute

RegSpec == RegInit /\ [][RegNext]_vars

\* the name of a parameter segment when `open` starts its constraint
NameBefore(segment, open) ==
    LET param == Tail(segment)
        pos == Find(param, open, 0)
    IN IF pos # None THEN SubSeq(param, 1, pos[1]) ELSE param

AlphanumericName(name) ==
    \A k \in 1..Len(name) : IsAlphanumeric(name[k]) \/ name[k] = "_"

ParamSegments(path) ==
    LET segments == SplitOn(path, "/")
    IN {i \in 1..Len(segments) : segments[i] # <<>> /\ segments[i][1] = ":"}

\* the path has consecutive slashes, or a parameter whose name is empty or
\* not alphanumeric whichever bracket is read as the start of a constraint,
\* or two parameters of one name
InvalidSyntax(path) ==
    LET segments == SplitOn(path, "/")
    IN \/ Contains(path, <<"/", "/">>)
       \/ \E i \in ParamSegments(path) :
              \A open \in {"<", "{"} :
                  \/ NameBefore(segments[i], open) = <<>>
                  \/ ~AlphanumericName(NameBefore(segments[i], open))
       \/ \E i, j \in ParamSegments(path) :
              /\ i < j
              /\ \A open \in {"<", "{"} :
                     NameBefore(segments[i], open) = NameBefore(segments[j], open)

\* C39: for every path with consecutive slashes, an empty parameter name, a
\* non-alphanumeric parameter name or a duplicate parameter name, try_new
\* returns an error and new panics, and no route with such a path is in the
\* route table.
C39_InvalidPathsRejected ==
    /\ (last.op = "RouteConfig::try_new" /\ InvalidSyntax(last.path)) =>
           ret.kind = "Err"
    /\ (last.op = "RouteConfig::new" /\ InvalidSyntax(last.path)) =>
           Panicked(ret)
    /\ \A i \in 1..Len(state.routes) : ~InvalidSyntax(state.routes[i].path)

\* a parameter segment ":name<constraint>" with an alphanumeric name and a
\* closed, non-empty constraint
ConstrainedParam(segment) ==
    /\ Len(segment) >= 5
    /\ segment[1] = ":"
    /\ segment[Len(segment)] = ">"
    /\ Find(Tail(segment), "<", 0) # None
    /\ NameBefore(segment, "<") # <<>>
    /\ AlphanumericName(NameBefore(segment, "<"))
    /\ Len(NameBefore(segment, "<")) + 3 < Len(segment)

\* C40: a route path whose parameter segments may carry a constraint suffix
\* (":name<constraint>") and which is otherwise well formed is accepted at
\* registration: try_new returns Ok, new does not panic, and add_route puts
\* the route in the table.
C40_ConstraintAccepted ==
    (/\ last.op # "new"
     /\ ~Contains(last.path, <<"/", "/">>)
     /\ \E i \in ParamSegments(last.path) :
            ConstrainedParam(SplitOn(last.path, "/")[i])
     /\ \A i \in ParamSegments(last.path) :
            /\ NameBefore(SplitOn(last.path, "/")[i], "<") # <<>>
            /\ AlphanumericName(NameBefore(SplitOn(last.path, "/")[i], "<"))
     /\ \A i, j \in ParamSegments(last.path) :
            i < j => NameBefore(SplitOn(last.path, "/")[i], "<")
                         # NameBefore(SplitOn(last.path, "/")[j], "<")) =>
        /\ last.op = "RouteConfig::try_new" => ret.kind = "Ok"
        /\ last.op = "RouteConfig::new" => ~Panicked(ret)
        /\ last.op = "add_route" =>
               /\ ~Panicked(ret)
               /\ Len(state.routes) = 1
               /\ state.routes[1].path = last.path

====
